---- MODULE Spec2Model ----
(***************************************************************************)
(* Model of the vikunja-mcp tool layer: the webhook-event reference cache  *)
(* (getValidEvents and its test hooks), event validation, and the tool     *)
(* handlers with their error boundaries.                                   *)
(*                                                                         *)
(* Execution is single-threaded and cooperative: a handler runs from one   *)
(* await to the next without interruption, and at every await the          *)
(* continuations of the other invocations, the test hooks and the clock    *)
(* may run.  Each action below is one such run: from the call of a handler *)
(* to its first await, or from the settling of an awaited promise to the   *)
(* next await or to the end of the handler.  The position of an invocation *)
(* (pc) names the await it is suspended at; what the awaited promise       *)
(* settles with is the input of the action that resumes it.                *)
(*                                                                         *)
(* An invocation holds its slot of inv from its call to its end.  The      *)
(* variable out is what the step just taken handed over: the invocation as *)
(* getValidEvents returned to it (pc "returned"), or the invocation as its *)
(* handler ended (pc "done", with the envelope or the error the caller     *)
(* receives); None after every other step.                                 *)
(***************************************************************************)
EXTENDS Integers, Sequences, FiniteSets, TLC

\* ------------------------------------------------------------- bounds
\* Concurrent invocations in flight at once.
Proc == {1, 2}
\* Invocations started in one behaviour.
MaxCalls == 2
\* Clock advances in one behaviour.
MaxTicks == 1
\* The wall clock when the process starts (milliseconds; any time after the epoch).
StartTime == 1

\* ------------------------------------------------------------- options
\* A nullable value is a sequence of length at most one: None is null/undefined.
None == <<>>
Some(x) == <<x>>
IsSome(o) == Len(o) = 1
Get(o) == o[1]
\* A string that is present and not empty: what the source language takes for true.
Truthy(text) == IsSome(text) /\ Get(text) # ""

\* ------------------------------------------------------------- strings
RECURSIVE Join(_, _)
\* Array.prototype.join
Join(s, sep) ==
  IF Len(s) = 0 THEN ""
  ELSE IF Len(s) = 1 THEN s[1]
  ELSE s[1] \o sep \o Join(Tail(s), sep)

\* Array.prototype.includes
Includes(s, x) == \E i \in 1..Len(s) : s[i] = x

RECURSIVE Filter_Valid(_, _)
\* Mutant: the filter keeps the events that are valid.
Filter_Valid(events, validEvents) ==
  IF Len(events) = 0 THEN <<>>
  ELSE IF Includes(validEvents, Head(events))
       THEN <<Head(events)>> \o Filter_Valid(Tail(events), validEvents)
       ELSE Filter_Valid(Tail(events), validEvents)

RECURSIVE Filter(_, _)
\* events.filter((event) => !validEvents.includes(event))
Filter(events, validEvents) ==
  IF Len(events) = 0 THEN <<>>
  ELSE IF ~Includes(validEvents, Head(events))
       THEN <<Head(events)>> \o Filter(Tail(events), validEvents)
       ELSE Filter(Tail(events), validEvents)

\* ------------------------------------------------------------- values
\* The values the client library hands back (JSON-shaped, untyped).
\* A value: its type t and, by type, the boolean b, the number n/d (d = 1: an
\* integer; d = 2: n halves, n odd, not an integer; d = 0: NaN) or the string s
\* (for an object or an array: its JSON text).
JsValue(t, b, n, d, s) == [t |-> t, b |-> b, n |-> n, d |-> d, s |-> s]
Undefined == JsValue("undefined", FALSE, 0, 1, "")
Null == JsValue("null", FALSE, 0, 1, "")
Bool(b) == JsValue("boolean", b, 0, 1, "")
Num(n) == JsValue("number", FALSE, n, 1, "")
Halves(n) == JsValue("number", FALSE, n, 2, "")
NaN == JsValue("number", FALSE, 0, 0, "")
Str(s) == JsValue("string", FALSE, 0, 1, s)
EmptyObject == JsValue("object", FALSE, 0, 1, "{}")
EmptyArray == JsValue("array", FALSE, 0, 1, "[]")

\* typeof value === 'object': null and arrays too.
TypeofObject(v) == v.t \in {"object", "array", "null"}
\* The falsy values: undefined, null, false, 0, NaN and the empty string.
IsFalsy(v) ==
  \/ v.t \in {"undefined", "null"}
  \/ v.t = "boolean" /\ ~v.b
  \/ v.t = "number" /\ (v.d = 0 \/ v.n = 0)
  \/ v.t = "string" /\ v.s = ""
\* Number(string), for the strings of the inputs below: a numeral (blanks
\* trimmed) is its number, the empty string is 0, any other text is NaN.
StringToNumber(s) ==
  CASE s = "" -> Num(0)
    [] s = "0" -> Num(0)
    [] s = "7" -> Num(7)
    [] s = " 12 " -> Num(12)
    [] s = "1.5" -> Halves(3)
    [] OTHER -> NaN
\* Number(value).
ToNumber(v) ==
  CASE v.t = "undefined" -> NaN
    [] v.t = "null" -> Num(0)
    [] v.t = "boolean" -> Num(IF v.b THEN 1 ELSE 0)
    [] v.t = "number" -> v
    [] v.t = "string" -> StringToNumber(v.s)
    [] v.t = "array" -> StringToNumber(IF v.s = "[]" THEN "" ELSE v.s)
    [] OTHER -> NaN
\* String(number), for the numbers (not negative) of the inputs below.
NumberToString(v) ==
  CASE v.d = 0 -> "NaN"
    [] v.d = 1 -> ToString(v.n)
    [] OTHER -> ToString(v.n \div 2) \o ".5"
IsInteger(v) == v.t = "number" /\ v.d = 1
\* String(value): a string is itself, an object "[object Object]", an array its
\* elements joined (the arrays of the inputs below are empty).
String(v) ==
  CASE v.t = "string" -> v.s
    [] v.t = "number" -> NumberToString(v)
    [] v.t = "boolean" -> (IF v.b THEN "true" ELSE "false")
    [] v.t = "object" -> "[object Object]"
    [] v.t = "array" -> ""
    [] v.t = "null" -> "null"
    [] OTHER -> "undefined"

\* ------------------------------------------------------------- errors
\* A thrown value: an MCPError (mcp), another Error (isError) or any other value.
\* entityId is the id of the entity in the details of an MCPError, if any. value
\* is the value thrown when it is not an Error (an Error is told by its class and
\* read by its message: value is undefined for it).
MCPErrorWith(code, message, entityId) ==
  [mcp |-> TRUE, isError |-> TRUE, code |-> code, message |-> message,
   entityId |-> entityId, value |-> Undefined]
MCPError(code, message) == MCPErrorWith(code, message, None)
JsError(message) ==
  [mcp |-> FALSE, isError |-> TRUE, code |-> "", message |-> message,
   entityId |-> None, value |-> Undefined]
\* The value v is thrown: it is not an Error and, unless it is an object that has
\* one, it has no message property.
Thrown(v) ==
  [mcp |-> FALSE, isError |-> FALSE, code |-> "", message |-> "",
   entityId |-> None, value |-> v]
\* A thrown string.
ThrownValue == Thrown(Str("boom"))
\* A thrown object that is not an Error and has a message property.
ThrownObject(message) ==
  [Thrown(JsValue("object", FALSE, 0, 1, "{\"message\":\"" \o message \o "\"}"))
     EXCEPT !.message = message]
NoError ==
  [mcp |-> FALSE, isError |-> FALSE, code |-> "", message |-> "-",
   entityId |-> None, value |-> Undefined]

\* ------------------------------------------------------------- the cache
CACHE_DURATION_MS == 5 * 60 * 1000

\* The default list of the 401/403/404 branch.
DefaultEventsNotAvailable ==
  << "task.created", "task.updated", "task.deleted", "task.assigned",
     "task.comment.created", "project.created", "project.updated",
     "project.deleted", "project.shared", "team.created", "team.deleted" >>

\* Mutant: the list of the catch branch lacks the last event of the other list.
DefaultEventsOnError_Short ==
  << "task.created", "task.updated", "task.deleted", "task.assigned",
     "task.comment.created", "project.created", "project.updated",
     "project.deleted", "project.shared", "team.created" >>

\* The default list of the catch branch.
DefaultEventsOnError ==
  << "task.created", "task.updated", "task.deleted", "task.assigned",
     "task.comment.created", "project.created", "project.updated",
     "project.deleted", "project.shared", "team.created", "team.deleted" >>

\* Mutant: an entry is still served at the instant it expires.
IsFresh_AtExpiry(ce, cx, now) == IsSome(ce) /\ IsSome(cx) /\ Get(cx) >= now

\* cachedEvents && cacheExpiry && cacheExpiry > now
IsFresh(ce, cx, now) == IsSome(ce) /\ IsSome(cx) /\ Get(cx) > now

\* The result of (a part of) getValidEvents: the cache as it leaves it, and either
\* the value it returns (ret, with the branch taken in path) or the error it throws.
ReadResult(ce, cx, ret, path) ==
  [events |-> ce, expiry |-> cx, ret |-> ret, path |-> path,
   threw |-> FALSE, err |-> NoError]
ReadThrow(ce, cx, err) ==
  [events |-> ce, expiry |-> cx, ret |-> <<>>, path |-> "throw",
   threw |-> TRUE, err |-> err]

\* Mutant: 404 is not taken as "not available".
IsNotAvailable_AuthOnly(status) == status = 401 \/ status = 403

\* response.status === 401 || response.status === 403 || response.status === 404
IsNotAvailable(status) == status = 401 \/ status = 403 \/ status = 404

\* The branch of a non-ok response.
OnNotOk(ce, cx, now, resp) ==
  IF IsNotAvailable(resp.status)
  THEN ReadResult(Some(DefaultEventsNotAvailable), Some(now + CACHE_DURATION_MS),
                  DefaultEventsNotAvailable, "notavailable")
  ELSE ReadThrow(ce, cx, JsError("Failed to fetch webhook events: " \o resp.statusText))

\* Mutant: a fetched list is not stored over an entry that is fresh by now (the
\* first writer wins).
OnOk_KeepFresh(ce, cx, now, resp) ==
  IF ~IsSome(resp.body)
  THEN ReadThrow(ce, cx, JsError("Unexpected token in JSON"))
  ELSE IF IsFresh(ce, cx, now)
       THEN ReadResult(ce, cx, Get(resp.body), "fetched")
       ELSE ReadResult(resp.body, Some(now + CACHE_DURATION_MS), Get(resp.body), "fetched")

\* The branch of an ok response: the body is parsed, then stored.
OnOk(ce, cx, now, resp) ==
  IF ~IsSome(resp.body)
  THEN ReadThrow(ce, cx, JsError("Unexpected token in JSON"))
  ELSE ReadResult(resp.body, Some(now + CACHE_DURATION_MS), Get(resp.body), "fetched")

\* The try block, resumed with the upstream's answer: getSession threw (kind
\* "session"), fetch rejected (kind "reject") or a response arrived (kind "http").
TryBlock(ce, cx, now, resp) ==
  IF resp.kind # "http" THEN ReadThrow(ce, cx, resp.err)
  ELSE IF ~resp.ok THEN OnNotOk(ce, cx, now, resp)
  ELSE OnOk(ce, cx, now, resp)

\* Mutant: without an entry to fall back on, the error is thrown again.
CatchBlock_Rethrow(ce, cx, now) ==
  IF IsSome(ce)
  THEN ReadResult(ce, cx, Get(ce), "stale")
  ELSE ReadThrow(ce, cx, JsError("Failed to fetch webhook events"))

\* Mutant: falling back on the stale entry renews its expiry.
CatchBlock_Renew(ce, cx, now) ==
  IF IsSome(ce)
  THEN ReadResult(ce, Some(now + CACHE_DURATION_MS), Get(ce), "stale")
  ELSE ReadResult(Some(DefaultEventsOnError), Some(now + CACHE_DURATION_MS),
                  DefaultEventsOnError, "default")

\* The catch block.
CatchBlock(ce, cx, now) ==
  IF IsSome(ce)
  THEN ReadResult(ce, cx, Get(ce), "stale")
  ELSE ReadResult(Some(DefaultEventsOnError), Some(now + CACHE_DURATION_MS),
                  DefaultEventsOnError, "default")

\* getValidEvents from the answer of the upstream on.
ResumeGetValidEvents(ce, cx, now, resp) ==
  LET t == TryBlock(ce, cx, now, resp)
  IN  IF t.threw THEN CatchBlock(t.events, t.expiry, now) ELSE t

\* ------------------------------------------------------------- validation
\* validateWebhookEvents, after the reference set is read: the error it throws, if any.
ValidateWebhookEvents(validEvents, events) ==
  LET invalidEvents == Filter(events, validEvents)
  IN  IF Len(invalidEvents) > 0
      THEN Some(MCPError("VALIDATION_ERROR",
                  "Invalid webhook events: " \o Join(invalidEvents, ", ")
                  \o ". Valid events are: " \o Join(validEvents, ", ")))
      ELSE None

\* ------------------------------------------------------------- upstream answers
\* What fetch and the read of the body give: a response (ok or not, its status, the
\* parsed body, None when the body does not parse, and for an error body its
\* message) or a rejection with the thrown value.
Response(kind, ok, status, statusText, body, message, err) ==
  [kind |-> kind, ok |-> ok, status |-> status, statusText |-> statusText,
   body |-> body, message |-> message, err |-> err]
NoResponse == Response("none", FALSE, 0, "", None, None, NoError)
HttpOk(body) == Response("http", TRUE, 200, "OK", body, None, NoError)
HttpStatus(status, statusText, message) ==
  Response("http", FALSE, status, statusText, None, message, NoError)
Reject(err) == Response("reject", FALSE, 0, "", None, None, err)
SessionFailure == Response("session", FALSE, 0, "", None, None, JsError("No active session"))

\* The non-ok statuses the upstream is taken to answer with.
StatusAnswers ==
  { <<401, "Unauthorized">>, <<403, "Forbidden">>, <<404, "Not Found">>,
    <<500, "Internal Server Error">> }
\* The values fetch is taken to reject with: a network error and a non-Error value.
Rejections == { JsError("fetch failed"), ThrownValue }

\* The event lists GET /webhooks/events is taken to answer with.
Bodies == { <<"a", "b">> }
EventsAnswers ==
  { HttpOk(Some(b)) : b \in Bodies } \cup { HttpOk(None) }
  \cup { HttpStatus(s[1], s[2], None) : s \in StatusAnswers }
  \cup { Reject(e) : e \in Rejections }

\* The values getClientFromContext is taken to reject with.
ClientFailures ==
  { MCPError("AUTH_REQUIRED", "Authentication required. Please use vikunja_auth.connect first."),
    JsError("No client factory available") }
\* The outcome of the await on the client: None (a client) or Some(rejection).
ClientOutcomes == {None} \cup {Some(e) : e \in ClientFailures}

\* The answers to a request on a project's webhooks: an ok response whose body is
\* the list of the ids of the webhooks (None: it does not parse), a non-ok response
\* with or without a message in its body, a rejection.
RequestAnswers ==
  { HttpOk(Some(ids)) : ids \in { <<>>, <<1>> } } \cup { HttpOk(None) }
  \cup { HttpStatus(s[1], s[2], m) : s \in StatusAnswers, m \in { None, Some("upstream says no") } }
  \cup { HttpStatus(500, "Internal Server Error", Some("")) }
  \cup { Reject(e) : e \in Rejections \cup { JsError(""), ThrownObject("socket hang up") } }

\* The steps the clock is taken to advance by.
TickSteps == { 1, CACHE_DURATION_MS }


\* safeString of transformUser.
SafeString(v) ==
  CASE v.t = "string" -> v.s
    [] v.t = "number" -> NumberToString(v)
    [] v.t = "boolean" -> (IF v.b THEN "true" ELSE "false")
    [] v.t \in {"object", "array"} -> v.s
    [] OTHER -> ""

\* The fields transformUser reads.
UserFields ==
  { "id", "username", "frontend_settings", "email", "name", "created", "updated",
    "language", "timezone", "week_start", "email_reminders_enabled",
    "overdue_tasks_reminders_enabled" }
StringFields == { "email", "name", "created", "updated", "language", "timezone" }
NoFields == [f \in UserFields |-> Undefined]
\* A raw value: what kind of value it is and, for an object, its fields (a field
\* that is absent reads as undefined), for an array, its items.
RawValue(kind, fields, items) == [kind |-> kind, fields |-> fields, items |-> items]
\* A raw user; as an array, it is the empty one.
RawUser(kind, fields) == RawValue(kind, fields, <<>>)
RawObject(fields) == RawUser("object", fields)
\* An array of raw users.
RawArray(items) == RawValue("array", NoFields, items)
\* isUserObject: the raw value is an object, and neither null nor an array.
IsUserObject(raw) == raw.kind = "object"

\* The user transformUser builds: an optional field is None when it is left out.
User(id, username, frontend_settings, strings, week_start, email_reminders_enabled, overdue_tasks_reminders_enabled) ==
  [id |-> id, username |-> username, frontend_settings |-> frontend_settings,
   strings |-> strings, week_start |-> week_start,
   email_reminders_enabled |-> email_reminders_enabled,
   overdue_tasks_reminders_enabled |-> overdue_tasks_reminders_enabled]
NoUser == User(Num(0), "", EmptyObject, [f \in StringFields |-> None], None, None, None)

\* A transformUser that spreads the optional flags by truthiness, as it does the
\* strings.
OptionalFlag_Truthy(v) == IF IsFalsy(v) THEN None ELSE Some(TRUE)
\* ...(value !== undefined ? { field: Boolean(value) } : {})
OptionalFlag(v) == IF v.t = "undefined" THEN None ELSE Some(~IsFalsy(v))
\* ...(value !== undefined ? { week_start: Number(value) } : {})
OptionalNumber(v) == IF v.t = "undefined" THEN None ELSE Some(ToNumber(v))
\* ...(value ? { field: safeString(value) } : {})
OptionalString(v) == IF IsFalsy(v) THEN None ELSE Some(SafeString(v))

\* transformUser: it throws err, or returns user.
TransformUser(raw) ==
  IF ~IsUserObject(raw)
  THEN [threw |-> TRUE, err |-> JsError("Invalid user data received"), user |-> NoUser]
  ELSE LET user == raw.fields
           number == ToNumber(user.id)
       IN  [threw |-> FALSE, err |-> NoError,
            user |-> User(
              IF IsFalsy(number) THEN Num(0) ELSE number,
              SafeString(user.username),
              IF ~IsFalsy(user.frontend_settings) /\ TypeofObject(user.frontend_settings)
              THEN user.frontend_settings ELSE EmptyObject,
              [f \in StringFields |-> OptionalString(user[f])],
              OptionalNumber(user.week_start),
              OptionalFlag(user.email_reminders_enabled),
              OptionalFlag(user.overdue_tasks_reminders_enabled))]

RECURSIVE MapTransformUser(_)
\* users.map(transformUser): the raw users transformUser is called on (raw), in
\* order, the users it returns (users) and the error it throws, if any (err).
MapTransformUser(items) ==
  IF items = <<>> THEN [raw |-> <<>>, users |-> <<>>, err |-> None]
  ELSE LET first == TransformUser(Head(items))
           rest == MapTransformUser(Tail(items))
       IN  IF first.threw
           THEN [raw |-> <<Head(items)>>, users |-> <<>>, err |-> Some(first.err)]
           ELSE [raw |-> <<Head(items)>> \o rest.raw,
                 users |-> <<first.user>> \o rest.users, err |-> rest.err]

\* What a case makes of the value its last call handed back. search reads the
\* length of the value, then maps transformUser over it: null and undefined have
\* no properties, and only an array has a map method. The other cases call
\* transformUser on the value.
UsersOf(subcommand, value) ==
  CASE subcommand # "search" -> MapTransformUser(<<value>>)
    [] value.kind \in {"null", "undefined"} ->
         [raw |-> <<>>, users |-> <<>>,
          err |-> Some(JsError("Cannot read properties of " \o value.kind
                               \o " (reading 'length')"))]
    [] value.kind # "array" ->
         [raw |-> <<>>, users |-> <<>>, err |-> Some(JsError("users.map is not a function"))]
    [] OTHER -> MapTransformUser(value.items)

\* The raw users of the invocations that run beside the webhooks handler.
Someone ==
  RawObject([NoFields EXCEPT !.id = Num(5), !.username = Str("a")])
RawUsers == { Someone, RawUser("null", NoFields), RawUser("array", NoFields),
              RawUser("string", NoFields) }
\* The values a field is taken to hold.
FieldValues ==
  { Undefined, Null, Bool(FALSE), Bool(TRUE), Num(0), Num(7), Halves(3), NaN,
    Str(""), Str("0"), Str("7"), Str(" 12 "), Str("1.5"), Str("abc"),
    EmptyObject, EmptyArray }
\* The raw users the sanitizer is run on: every value that is not an object, and
\* the objects that differ in one field from the empty object or from Someone.
RawUserValues ==
  { RawUser(kind, NoFields) : kind \in {"null", "array", "string", "number", "undefined"} }
  \cup { RawObject([base.fields EXCEPT ![f] = v]) :
           base \in {RawObject(NoFields), Someone}, f \in UserFields, v \in FieldValues }

\* ------------------------------------------------------------- invocations
Args(projectId, webhookId, targetUrl, events) ==
  [projectId |-> projectId, webhookId |-> webhookId,
   targetUrl |-> targetUrl, events |-> events]
NoArgs == Args(None, None, None, None)
\* The arguments an invocation of a subcommand is taken to carry (the schema lets
\* every one of them be absent; an id that is present is a positive integer).
ArgChoices(subcommand) ==
  CASE subcommand = "list-events" -> { NoArgs }
    [] subcommand = "list" -> { NoArgs, Args(Some(1), None, None, None) }
    [] subcommand \in {"get", "delete"} ->
         { NoArgs, Args(Some(1), None, None, None), Args(Some(1), Some(1), None, None) }
    [] subcommand = "create" ->
         { NoArgs, Args(Some(1), None, None, Some(<<"a">>)),
           Args(Some(1), None, Some("https://hook"), None),
           Args(Some(1), None, Some(""), None),
           Args(Some(1), None, Some("https://hook"), Some(<<>>)),
           Args(Some(1), None, Some("https://hook"), Some(<<"a">>)),
           Args(Some(1), None, Some("https://hook"), Some(<<"a", "c">>)) }
    [] OTHER ->
         { Args(Some(1), None, None, Some(<<"a">>)),
           Args(Some(1), Some(1), None, Some(<<>>)),
           Args(Some(1), Some(1), None, Some(<<"a">>)),
           Args(Some(1), Some(1), None, Some(<<"a", "c">>)) }

WebhookSubcommands == {"list", "get", "create", "update", "delete", "list-events"}

\* The longest array getUsers is taken to hand back.
MaxUsers == 2
\* The arrays of raw users: every item but the last is Someone, the last is drawn
\* from raws.
ArraysOf(raws) ==
  { RawArray([k \in 1..n |-> IF k < n THEN Someone ELSE r]) :
      n \in 1..MaxUsers, r \in raws }
\* The values the last call of a case is taken to hand back: getUser a raw user,
\* getUsers a raw user (the empty array is one) or an array of raw users.
ValuesOf(subcommand, raws) ==
  IF subcommand = "search" THEN raws \cup ArraysOf(raws) ELSE raws

\* data: the envelope carries a data payload; every call of createAorpResponse and
\* of createStandardResponse passes an object literal as its third argument.
Result(kind, success, operation, err) ==
  [kind |-> kind, success |-> success, operation |-> operation, err |-> err,
   data |-> (kind = "envelope")]
NoResult == Result("none", FALSE, "", NoError)
\* The handler returns the envelope createAorpResponse built.
Envelope(operation, success) == Result("envelope", success, operation, NoError)
\* The handler rejects with err.
Failure(err) == Result("error", FALSE, "", err)

Idle ==
  [pc |-> "idle", tool |-> "", subcommand |-> "", args |-> NoArgs, now |-> 0,
   path |-> "none", validEvents |-> <<>>, evResponse |-> NoResponse,
   apiResponse |-> NoResponse, raised |-> None, result |-> NoResult,
   stage |-> "", evFetches |-> 0, apiCalls |-> 0, overlapped |-> FALSE,
   raw |-> <<>>, data |-> <<>>, settings |-> None, affectedFields |-> <<>>,
   classified |-> None]

VARIABLES
  cachedEvents,   \* the module's cachedEvents: None or Some(list)
  cacheExpiry,    \* the module's cacheExpiry: None or Some(time)
  clock,          \* the wall clock, in milliseconds
  ticks,          \* clock advances so far
  calls,          \* invocations started so far
  inv,            \* the invocations under way: position and locals of each
  out             \* what the step just taken handed over: None, or Some(invocation)

vars == <<cachedEvents, cacheExpiry, clock, ticks, calls, inv, out>>

Init ==
  /\ cachedEvents = None
  /\ cacheExpiry = None
  /\ clock = StartTime
  /\ ticks = 0
  /\ calls = 0
  /\ inv = [p \in Proc |-> Idle]
  /\ out = None

\* ------------------------------------------------------------- the webhooks tool
\* validateAndConvertId(value, fieldName): the error it throws, if any.
ValidateAndConvertId(id, fieldName) ==
  IF IsSome(id) /\ Get(id) > 0 THEN None
  ELSE Some(MCPError("VALIDATION_ERROR", fieldName \o " must be a positive integer"))

\* The first error in a sequence of checks (each None or Some(error)), in order.
FirstError(checks) ==
  IF \E i \in 1..Len(checks) : IsSome(checks[i])
  THEN checks[CHOOSE i \in 1..Len(checks) :
                /\ IsSome(checks[i])
                /\ \A j \in 1..(i - 1) : ~IsSome(checks[j])]
  ELSE None

Require(cond, message) ==
  IF cond THEN None ELSE Some(MCPError("VALIDATION_ERROR", message))

\* The checks of a case of the switch that come before its first await.
WebhookArgChecks(subcommand, a) ==
  LET project == ValidateAndConvertId(a.projectId, "projectId")
      webhook == ValidateAndConvertId(a.webhookId, "webhookId")
      hasEvents == IsSome(a.events) /\ Len(Get(a.events)) # 0
  IN  CASE subcommand = "list" -> FirstError(<<project>>)
        [] subcommand \in {"get", "delete"} -> FirstError(<<project, webhook>>)
        [] subcommand = "create" ->
             FirstError(<< project,
                Require(Truthy(a.targetUrl), "targetUrl is required for creating a webhook"),
                Require(hasEvents, "At least one event is required for creating a webhook") >>)
        [] subcommand = "update" ->
             FirstError(<< project, webhook,
                Require(hasEvents, "At least one event is required for updating a webhook") >>)
        [] OTHER -> None

\* A catch block that wraps every error it catches, an MCPError too.
WebhooksCatch_Rewrap(error) ==
  IF error.isError
  THEN MCPError("API_ERROR", "Webhook operation failed: " \o error.message)
  ELSE MCPError("INTERNAL_ERROR", "An unexpected error occurred during webhook operation")

\* The catch block of the handler: the error the handler rejects with.
WebhooksCatch(error) ==
  IF error.mcp THEN error
  ELSE IF error.isError
       THEN MCPError("API_ERROR", "Webhook operation failed: " \o error.message)
       ELSE MCPError("INTERNAL_ERROR",
                     "An unexpected error occurred during webhook operation")

\* The text of `Failed to <...>: ${response.statusText}` in each case.
FailedTo(subcommand) ==
  CASE subcommand = "list" -> "Failed to list webhooks: "
    [] subcommand = "get" -> "Failed to get webhooks: "
    [] subcommand = "create" -> "Failed to create webhook: "
    [] subcommand = "update" -> "Failed to update webhook: "
    [] OTHER -> "Failed to delete webhook: "

\* A handler that classifies the status of the response as the other tools do.
WebhookNotOk_Classified(subcommand, resp) ==
  MCPError(CASE resp.status = 401 -> "AUTH_REQUIRED"
             [] resp.status = 403 -> "PERMISSION_DENIED"
             [] resp.status = 404 -> "NOT_FOUND"
             [] OTHER -> "API_ERROR",
           IF IsSome(resp.message) /\ Get(resp.message) # ""
           THEN Get(resp.message)
           ELSE FailedTo(subcommand) \o resp.statusText)

\* The error thrown for a response that is not ok.
WebhookNotOk(subcommand, resp) ==
  IF resp.status = 401 \/ resp.status = 403
  THEN MCPError("API_ERROR",
         "Webhook operations require additional permissions. Please ensure your API token has webhook access rights.")
  ELSE MCPError("API_ERROR",
         IF IsSome(resp.message) /\ Get(resp.message) # ""
         THEN Get(resp.message)
         ELSE FailedTo(subcommand) \o resp.statusText)

\* A case of the switch from the answer to its request on: the error thrown inside
\* the try block, if any (None: the envelope is built and returned).
WebhookAfterRequest(subcommand, a, resp) ==
  IF resp.kind # "http" THEN Some(resp.err)
  ELSE IF ~resp.ok THEN Some(WebhookNotOk(subcommand, resp))
  ELSE IF subcommand = "delete" THEN None
  ELSE IF ~IsSome(resp.body) THEN Some(JsError("Unexpected token in JSON"))
  ELSE IF subcommand = "get" /\ ~Includes(Get(resp.body), Get(a.webhookId))
       THEN Some(MCPError("NOT_FOUND",
              "Webhook with ID " \o ToString(Get(a.webhookId))
              \o " not found in project " \o ToString(Get(a.projectId))))
       ELSE None

\* ------------------------------------------------------------- error helpers
\* The values a call of the client library is taken to throw.
UpstreamThrows ==
  { JsError("Request failed with status code 500"), JsError("token expired"),
    JsError(""), ThrownValue }
\* The outcome of such a call: None (it returns) or Some(thrown value).
UpstreamOutcomes == {None} \cup {Some(e) : e \in UpstreamThrows}

\* The kinds the status classifier gives a status. 401 and 403 are AUTH_REQUIRED
\* or PERMISSION_DENIED, told apart by the intent the caller supplies; how the
\* classifier reads an intent out of its arguments is not in the sources, so
\* either kind is an outcome for either status.
StatusKinds(status) ==
  CASE status \in {401, 403} -> {"AUTH_REQUIRED", "PERMISSION_DENIED"}
    [] status = 404 -> {"NOT_FOUND"}
    [] status \in {400, 422} -> {"VALIDATION_ERROR"}
    [] OTHER -> {"API_ERROR"}

\* The status classifier (handleStatusCodeError): the errors it may return for a
\* failed response. The id of the entity, if any, goes into the details of the
\* error.
HandleStatusCodeError(status, message, operation, id, fallbackMessage) ==
  { MCPErrorWith(kind, fallbackMessage, id) : kind \in StatusKinds(status) }

\* The generic wrapper (wrapToolError): an MCPError as it is; any other failure as
\* an API_ERROR naming the operation, the id if there is one and the failure's
\* message, or as an INTERNAL_ERROR when the failure has no message.
WrapToolError(error, toolName, operation, id) ==
  IF error.mcp THEN error
  ELSE IF error.message # ""
       THEN MCPError("API_ERROR",
              toolName \o "." \o operation
              \o (IF IsSome(id) THEN " (" \o ToString(Get(id)) \o ")" ELSE "")
              \o " failed: " \o error.message)
       ELSE MCPError("INTERNAL_ERROR", toolName \o "." \o operation \o " failed")

\* The auth wrapper (handleAuthError): a failure that tells of an expired or invalid
\* session as AUTH_REQUIRED with guidance, any other through the generic wrapper.
HandleAuthError(error, operation, fallbackMessage) ==
  IF error.isError /\ error.message = "token expired"
  THEN MCPError("AUTH_REQUIRED",
         "Authentication failed during " \o operation
         \o ". Please reconnect using vikunja_auth.connect.")
  ELSE IF error.message # ""
       THEN MCPError("API_ERROR", fallbackMessage)
       ELSE MCPError("INTERNAL_ERROR", fallbackMessage)

\* The catch block of the handler the invocation ran in, applied to an error.
Boundary(i, error) ==
  CASE i.tool = "webhooks" -> WebhooksCatch(error)
    [] i.tool = "teams" ->
         WrapToolError(error, "vikunja_teams", i.subcommand \o " team", i.args.id)
    [] i.tool = "labels" ->
         WrapToolError(error, "vikunja_labels", i.subcommand \o " label", i.args.id)
    [] OTHER ->
         IF error.mcp THEN error
         ELSE HandleAuthError(error, "user." \o i.subcommand,
                "User operation error: "
                \o (IF error.isError THEN error.message ELSE String(error.value)))

\* ------------------------------------------------------------- handlers: steps
\* The error of the authentication check every handler starts with.
AuthRequired ==
  MCPError("AUTH_REQUIRED", "Authentication required. Please use vikunja_auth.connect first.")

\* The invocation as its handler is entered. The subcommand and the arguments
\* are inputs of the step that reads them first, inside the try block: nothing
\* before it depends on them.
Entered(tool) == [Idle EXCEPT !.tool = tool]
\* The invocation as its handler enters the try block.
InTryBlock(i, subcommand, a) == [i EXCEPT !.subcommand = subcommand, !.args = a]

\* The handler ends by a throw outside its try block: the caller gets the value
\* as it was thrown.
ThrowOutside(i, stage, error) ==
  [i EXCEPT !.pc = "done", !.stage = stage, !.raised = Some(error),
            !.result = Failure(error)]

\* The handler's run from a thrown error (inside the try block) to its end.
ThrowInTry(i, stage, error) ==
  [i EXCEPT !.pc = "done", !.stage = stage, !.raised = Some(error),
            !.result = Failure(Boundary(i, error))]

\* The handler returns its envelope.
ReturnEnvelope(i, operation) ==
  [i EXCEPT !.pc = "done", !.result = Envelope(operation, TRUE)]

\* What an invocation holds on to across an await: what the step observed of the
\* read (the path it took, the answer it got, whether it overlapped) is not held.
Held(i) ==
  [i EXCEPT !.path = IF i.pc \in {"events", "body"} \/ @ = "throw" THEN @ ELSE "none",
            !.evResponse = IF i.pc = "body" THEN @ ELSE NoResponse,
            !.overlapped = IF i.pc \in {"events", "body"} THEN @ ELSE FALSE]

\* The invocation p goes on as j: its slot is free once its handler has ended.
\* out is the invocation as the step leaves it, when the step is the return of
\* getValidEvents to its caller or the end of the handler.
GoesOn(p, j) ==
  /\ inv' = [inv EXCEPT ![p] = IF j.pc = "done" THEN Idle ELSE Held(j)]
  /\ out' = IF j.pc \in {"returned", "done"} THEN Some(j) ELSE None

\* A response as fetch resolves with it: the status line, the body not read yet.
Headers(resp) == [resp EXCEPT !.body = None, !.message = None]
\* What an await on fetch gives, out of a set of answers: a response whose body is
\* still to be read, or a rejection.
Fetched(answers) ==
  { Headers(r) : r \in {x \in answers : x.kind = "http"} }
  \cup { r \in answers : r.kind = "reject" }
\* What the read of the body of a response makes of it, out of a set of answers.
BodyRead(answers, resp) ==
  { r \in answers : r.kind = "http" /\ Headers(r) = resp }

\* ------------------------------------------------------------- the webhooks handler
\* getValidEvents returns (or throws) to the await of its caller: the caller
\* resumes in a later step. The local now of getValidEvents ends with it.
GetValidEventsReturns(i, r) ==
  IF r.threw
  THEN [i EXCEPT !.pc = "returned", !.path = "throw", !.raised = Some(r.err), !.now = 0]
  ELSE [i EXCEPT !.pc = "returned", !.path = r.path, !.validEvents = r.ret, !.now = 0]

\* validateWebhookEvents settles: it returns, or rejects with thrown, to the await
\* of the handler, which resumes in a later step.
Validated(i, thrown) == [i EXCEPT !.pc = "validated", !.path = "none", !.raised = thrown]

\* A handler that goes on to its request without validating the events.
AfterGetValidEvents_Unvalidated(i) ==
  IF i.subcommand = "list-events"
  THEN IF i.path = "throw" THEN ThrowInTry(i, "events", Get(i.raised))
       ELSE ReturnEnvelope(i, "list-events")
  ELSE Validated(i, IF i.path = "throw" THEN i.raised ELSE None)

\* A handler that issues its request on the webhooks before it validates the events.
AfterGetValidEvents_RequestFirst(i) ==
  IF i.subcommand = "list-events" THEN ReturnEnvelope(i, "list-events")
  ELSE Validated([i EXCEPT !.apiCalls = 1],
                 ValidateWebhookEvents(i.validEvents, Get(i.args.events)))

\* The caller of getValidEvents resumes with what it returned. In list-events it
\* is the handler, which builds its envelope. In create and update it is
\* validateWebhookEvents, which filters the events and returns or throws: an
\* async function, it settles the promise the handler awaits (pc "validated").
AfterGetValidEvents(i) ==
  IF i.subcommand = "list-events"
  THEN IF i.path = "throw" THEN ThrowInTry(i, "events", Get(i.raised))
       ELSE ReturnEnvelope(i, "list-events")
  ELSE Validated(i, IF i.path = "throw" THEN i.raised
                    ELSE ValidateWebhookEvents(i.validEvents, Get(i.args.events)))

\* The invocations inside getValidEvents, between its fetch and its return.
Reading(i) == i.pc \in {"events", "body"}
OthersFetching(p) == \E q \in Proc \ {p} : Reading(inv[q])

\* What the await on fetch of getValidEvents gives.
EventsFetched == Fetched(EventsAnswers)

\* The handler is invoked: the authentication check, then the await on
\* getClientFromContext.
WebhooksInvoke(p) ==
  /\ inv[p].pc = "idle"
  /\ calls < MaxCalls
  /\ calls' = calls + 1
  /\ \E authenticated \in BOOLEAN :
       GoesOn(p, IF authenticated THEN [Entered("webhooks") EXCEPT !.pc = "client"]
                 ELSE ThrowOutside(Entered("webhooks"), "auth", AuthRequired))
  /\ UNCHANGED <<cachedEvents, cacheExpiry, clock, ticks>>

\* getClientFromContext is settled (client: None, or the value it rejects with).
\* The handler calls getSession, still outside its try block (sessionOk: whether it
\* returns), enters the try block and runs the case of the subcommand to its first
\* await: the fetch of the case, or, for create, update and list-events, the
\* entry of getValidEvents, which takes its now, returns the cached values while
\* they are fresh and issues its fetch otherwise. getSession inside
\* getValidEvents is called in the run that called it in the handler: it returns.
WebhooksClientAnswer(p) ==
  /\ inv[p].pc = "client"
  /\ inv[p].tool = "webhooks"
  /\ \E client \in ClientOutcomes :
     \E sessionOk \in (IF client = None THEN BOOLEAN ELSE {TRUE}) :
     \E subcommand \in (IF client = None /\ sessionOk THEN WebhookSubcommands
                         ELSE {""}) :
     \E a \in (IF subcommand = "" THEN {NoArgs} ELSE ArgChoices(subcommand)) :
       LET i == IF subcommand = "" THEN inv[p] ELSE InTryBlock(inv[p], subcommand, a)
           check == WebhookArgChecks(i.subcommand, i.args)
           j == [i EXCEPT !.now = clock]
       IN  IF IsSome(client)
           THEN GoesOn(p, ThrowOutside(i, "client", Get(client)))
           ELSE IF ~sessionOk
           THEN GoesOn(p, ThrowOutside(i, "session", JsError("No active session")))
           ELSE IF IsSome(check)
           THEN GoesOn(p, ThrowInTry(i, "arguments", Get(check)))
           ELSE IF i.subcommand \in {"list", "get", "delete"}
           THEN GoesOn(p, [i EXCEPT !.pc = "request", !.apiCalls = @ + 1])
           ELSE IF IsFresh(cachedEvents, cacheExpiry, clock)
           THEN GoesOn(p,
                          GetValidEventsReturns(j,
                            ReadResult(cachedEvents, cacheExpiry,
                                       Get(cachedEvents), "cached")))
           ELSE /\ inv' = [q \in Proc |->
                          IF q = p
                          THEN [j EXCEPT !.pc = "events", !.path = "fetching",
                                         !.evFetches = @ + 1,
                                         !.overlapped = OthersFetching(p)]
                          ELSE IF Reading(inv[q])
                               THEN [inv[q] EXCEPT !.overlapped = TRUE]
                               ELSE inv[q]]
                /\ out' = None
  /\ UNCHANGED <<cachedEvents, cacheExpiry, clock, ticks, calls>>

\* The fetch of getValidEvents is settled. An ok response: getValidEvents awaits
\* the read of its body. A response that is not ok, or a rejection: getValidEvents
\* runs to its return, through the defaults of 401/403/404 or its catch block.
WebhooksEventsAnswer(p) ==
  /\ inv[p].pc = "events"
  /\ \E resp \in EventsFetched :
       IF resp.kind = "http" /\ resp.ok
       THEN /\ GoesOn(p, [inv[p] EXCEPT !.pc = "body", !.evResponse = resp])
            /\ UNCHANGED <<cachedEvents, cacheExpiry>>
       ELSE LET r == ResumeGetValidEvents(cachedEvents, cacheExpiry, inv[p].now, resp)
            IN  /\ cachedEvents' = r.events
                /\ cacheExpiry' = r.expiry
                /\ GoesOn(p,
                             GetValidEventsReturns([inv[p] EXCEPT !.evResponse = resp], r))
  /\ UNCHANGED <<clock, ticks, calls>>

\* response.json() of getValidEvents is settled: the list is stored with the
\* expiry now + TTL and returned, or, the body not parsing, the catch block runs
\* on the cache as it is at this time.
WebhooksEventsBody(p) ==
  /\ inv[p].pc = "body"
  /\ \E resp \in BodyRead(EventsAnswers, inv[p].evResponse) :
       LET r == ResumeGetValidEvents(cachedEvents, cacheExpiry, inv[p].now, resp)
       IN  /\ cachedEvents' = r.events
           /\ cacheExpiry' = r.expiry
           /\ GoesOn(p,
                        GetValidEventsReturns([inv[p] EXCEPT !.evResponse = resp], r))
  /\ UNCHANGED <<clock, ticks, calls>>

\* The await on getValidEvents resumes: in the handler for list-events, in
\* validateWebhookEvents for create and update.
WebhooksValidate(p) ==
  /\ inv[p].pc = "returned"
  /\ GoesOn(p, AfterGetValidEvents(inv[p]))
  /\ UNCHANGED <<cachedEvents, cacheExpiry, clock, ticks, calls>>

\* The await of create and update on validateWebhookEvents resumes: with its
\* rejection the handler goes to its catch block, otherwise it issues its request.
\* What getValidEvents and validateWebhookEvents held ends with them.
WebhooksIssueRequest(p) ==
  /\ inv[p].pc = "validated"
  /\ GoesOn(p, IF IsSome(inv[p].raised)
               THEN ThrowInTry(inv[p], "events", Get(inv[p].raised))
               ELSE [inv[p] EXCEPT !.pc = "request", !.apiCalls = @ + 1,
                                   !.validEvents = <<>>])
  /\ UNCHANGED <<cachedEvents, cacheExpiry, clock, ticks, calls>>

\* The fetch of the case is settled. A rejection goes to the catch block; the ok
\* response of delete ends the case (its body is not read); every other response
\* has its body read next: response.json(), with its own catch when not ok.
WebhooksRequestSettles(p, answers) ==
  /\ inv[p].pc = "request"
  /\ inv[p].tool = "webhooks"
  /\ \E resp \in Fetched(answers) :
       LET i == [inv[p] EXCEPT !.apiResponse = resp]
       IN  GoesOn(p,
             IF resp.kind # "http" THEN ThrowInTry(i, "request", resp.err)
             ELSE IF resp.ok /\ i.subcommand = "delete"
                  THEN ReturnEnvelope(i, i.subcommand)
                  ELSE [i EXCEPT !.pc = "reqbody"])
  /\ UNCHANGED <<cachedEvents, cacheExpiry, clock, ticks, calls>>

\* The read of the body of the response is settled: the handler runs to its end.
WebhooksBodySettles(p, answers) ==
  /\ inv[p].pc = "reqbody"
  /\ inv[p].tool = "webhooks"
  /\ \E resp \in BodyRead(answers, inv[p].apiResponse) :
       LET i == [inv[p] EXCEPT !.apiResponse = resp]
           thrown == WebhookAfterRequest(i.subcommand, i.args, resp)
       IN  GoesOn(p,
             IF IsSome(thrown) THEN ThrowInTry(i, "request", Get(thrown))
             ELSE ReturnEnvelope(i, i.subcommand))
  /\ UNCHANGED <<cachedEvents, cacheExpiry, clock, ticks, calls>>

WebhooksRequestAnswer(p) == WebhooksRequestSettles(p, RequestAnswers)
WebhooksRequestBody(p) == WebhooksBodySettles(p, RequestAnswers)

\* The same two steps where the upstream answers a request on the webhooks with
\* one ok response or one that is not ok: what the cache is left with does not
\* depend on the answer.
PlainAnswers == { HttpOk(Some(<<1>>)), HttpStatus(500, "Internal Server Error", None) }
WebhooksPlainAnswer(p) == WebhooksRequestSettles(p, PlainAnswers)
WebhooksPlainBody(p) == WebhooksBodySettles(p, PlainAnswers)


\* ---- teams
TeamArgs(id, name, description) == [id |-> id, name |-> name, description |-> description]
\* An id of 0 stands for a malformed id, an empty name for an empty string.
TeamArgChoices ==
  { TeamArgs(None, None, None), TeamArgs(Some(1), None, None),
    TeamArgs(Some(7), None, None),
    TeamArgs(Some(0), Some("Team"), None), TeamArgs(Some(1), Some("Team"), None),
    TeamArgs(None, Some(""), None), TeamArgs(Some(1), None, Some("about")) }
TeamSubcommands == {"list", "create", "get", "update", "delete", "members"}
NotImplemented(message) == Some(MCPError("NOT_IMPLEMENTED", message))
RequireTeamId(a) == Require(IsSome(a.id), "Team ID is required")

\* The checks of each case, with the NOT_IMPLEMENTED some cases end in.
TeamChecks(subcommand, a) ==
  CASE subcommand = "list" -> None
    [] subcommand = "create" -> Require(Truthy(a.name), "Team name is required")
    [] subcommand = "get" ->
         FirstError(<< RequireTeamId(a), ValidateAndConvertId(a.id, "id"),
            NotImplemented("Get team by ID is not yet implemented in the node-vikunja library") >>)
    [] subcommand = "update" ->
         FirstError(<< RequireTeamId(a), ValidateAndConvertId(a.id, "id"),
            Require(Truthy(a.name) \/ Truthy(a.description),
                    "At least one field to update is required"),
            NotImplemented("Update team is not yet implemented in the node-vikunja library") >>)
    [] subcommand = "delete" ->
         FirstError(<< RequireTeamId(a), ValidateAndConvertId(a.id, "id") >>)
    [] OTHER ->
         FirstError(<< RequireTeamId(a), ValidateAndConvertId(a.id, "id"),
            NotImplemented("Team member operations are not yet implemented in the node-vikunja library") >>)

TeamOperation(subcommand) ==
  CASE subcommand = "list" -> "list-teams"
    [] subcommand = "create" -> "create-team"
    [] OTHER -> "delete-team"

\* The answers to the fetch of the fallback of the deletion.
TeamDeleteAnswers ==
  RequestAnswers
  \cup { HttpStatus(400, "Bad Request", Some("bad request")),
         HttpStatus(422, "Unprocessable Entity", Some("cannot leave")) }

\* The values the read of a body (response.text()) is taken to reject with.
BodyRejections == { JsError("terminated") }
\* The response resp whose body could not be read: the read rejected with err.
BodyFailed(resp, err) == [resp EXCEPT !.err = err]
\* What the read of the body of the fallback's response gives: the body, or, for
\* a response that is not ok, whose text is read with no catch, a rejection.
TeamBodyRead(resp) ==
  BodyRead(TeamDeleteAnswers, resp)
  \cup (IF resp.ok THEN {} ELSE { BodyFailed(resp, e) : e \in BodyRejections })

\* What the fallback hands to the classifier: the status of the response and the
\* text of its body as statusCode and message, the operation and the converted id
\* of the team (None: the classifier is not called).
ClassifierCall(a, resp) ==
  IF resp.kind = "http" /\ resp.err = NoError /\ ~resp.ok
  THEN Some([statusCode |-> resp.status,
             message |-> IF IsSome(resp.message) THEN Get(resp.message) ELSE "",
             operation |-> "leave team", id |-> a.id])
  ELSE None

\* A fallback that throws the text of a failed response as it is, unclassified.
TeamDeleteFallback_Unclassified(a, resp) ==
  IF resp.kind # "http" \/ resp.err # NoError THEN { Some(resp.err) }
  ELSE IF ~resp.ok
       THEN { Some(JsError(IF IsSome(resp.message) THEN Get(resp.message) ELSE "")) }
       ELSE IF ~IsSome(resp.body) THEN { Some(JsError("Unexpected token in JSON")) }
       ELSE { None }

\* The fallback of the deletion: what the answer of the fetch and the read of its
\* body make the case throw (None: it returns); a set, one outcome for each error
\* the classifier may return. A rejection of the fetch or of the read of the body
\* is thrown as it is: the classifier is called only once the text is read.
TeamDeleteFallback(a, resp) ==
  IF resp.kind # "http" \/ resp.err # NoError THEN { Some(resp.err) }
  ELSE IF ~resp.ok
       THEN LET call == Get(ClassifierCall(a, resp))
                errorText == call.message
            IN  { Some(e) : e \in
                    HandleStatusCodeError(call.statusCode, errorText, call.operation, call.id,
                      "Failed to leave team " \o ToString(Get(a.id)) \o ": " \o errorText) }
       ELSE IF ~IsSome(resp.body) THEN { Some(JsError("Unexpected token in JSON")) }
       ELSE { None }

\* The handler is invoked: the authentication check, then the await on
\* getClientFromContext.
TeamsInvoke(p) ==
  /\ inv[p].pc = "idle"
  /\ calls < MaxCalls
  /\ calls' = calls + 1
  /\ \E authenticated \in BOOLEAN :
       GoesOn(p, IF authenticated THEN [Entered("teams") EXCEPT !.pc = "client"]
                 ELSE ThrowOutside(Entered("teams"), "auth", AuthRequired))
  /\ UNCHANGED <<cachedEvents, cacheExpiry, clock, ticks>>

\* getClientFromContext is settled: the handler enters its try block and runs the
\* case to its first await, the call of the client library, or, where the client
\* has no deleteTeam (hasDeleteTeam), getSession (sessionOk: whether it returns)
\* and the fetch of the fallback of the deletion.
TeamsClientAnswer(p) ==
  /\ inv[p].pc = "client"
  /\ inv[p].tool = "teams"
  /\ \E client \in ClientOutcomes :
     \E subcommand \in (IF client = None THEN TeamSubcommands ELSE {""}) :
     \E a \in (IF subcommand = "" THEN {NoArgs} ELSE TeamArgChoices) :
     \E hasDeleteTeam \in (IF subcommand = "delete" /\ TeamChecks(subcommand, a) = None
                           THEN BOOLEAN ELSE {TRUE}) :
     \E sessionOk \in (IF hasDeleteTeam THEN {TRUE} ELSE BOOLEAN) :
       LET i == IF subcommand = "" THEN inv[p] ELSE InTryBlock(inv[p], subcommand, a)
           check == TeamChecks(i.subcommand, i.args)
       IN  GoesOn(p,
             IF IsSome(client) THEN ThrowOutside(i, "client", Get(client))
             ELSE IF IsSome(check) THEN ThrowInTry(i, "arguments", Get(check))
             ELSE IF hasDeleteTeam THEN [i EXCEPT !.pc = "call", !.apiCalls = @ + 1]
             ELSE IF sessionOk THEN [i EXCEPT !.pc = "request", !.apiCalls = @ + 1]
             ELSE ThrowInTry(i, "request", JsError("No active session")))
  /\ UNCHANGED <<cachedEvents, cacheExpiry, clock, ticks, calls>>

\* The call of the client library is settled (up: None, or the value it throws).
TeamsCallAnswer(p) ==
  /\ inv[p].pc = "call"
  /\ inv[p].tool = "teams"
  /\ \E up \in UpstreamOutcomes :
       GoesOn(p,
                 IF IsSome(up) THEN ThrowInTry(inv[p], "request", Get(up))
                 ELSE ReturnEnvelope(inv[p], TeamOperation(inv[p].subcommand)))
  /\ UNCHANGED <<cachedEvents, cacheExpiry, clock, ticks, calls>>

\* The fetch of the fallback is settled: a rejection goes to the catch block, a
\* response has its body read next (response.text() when not ok, response.json()).
TeamsFallbackAnswer(p) ==
  /\ inv[p].pc = "request"
  /\ inv[p].tool = "teams"
  /\ \E resp \in Fetched(TeamDeleteAnswers) :
       LET i == [inv[p] EXCEPT !.apiResponse = resp]
       IN  GoesOn(p,
             IF resp.kind # "http" THEN ThrowInTry(i, "request", resp.err)
             ELSE [i EXCEPT !.pc = "reqbody"])
  /\ UNCHANGED <<cachedEvents, cacheExpiry, clock, ticks, calls>>

\* The read of the body of the fallback's response is settled: it gives the body
\* or rejects.
TeamsFallbackBody(p) ==
  /\ inv[p].pc = "reqbody"
  /\ inv[p].tool = "teams"
  /\ \E resp \in TeamBodyRead(inv[p].apiResponse) :
       LET i == [inv[p] EXCEPT !.apiResponse = resp,
                                    !.classified = ClassifierCall(inv[p].args, resp)]
       IN  \E thrown \in TeamDeleteFallback(i.args, resp) :
             GoesOn(p,
               IF IsSome(thrown) THEN ThrowInTry(i, "request", Get(thrown))
               ELSE ReturnEnvelope(i, TeamOperation(i.subcommand)))
  /\ UNCHANGED <<cachedEvents, cacheExpiry, clock, ticks, calls>>


\* ---- labels
LabelArgs(id, title, description, hexColor) ==
  [id |-> id, title |-> title, description |-> description, hexColor |-> hexColor]
\* An id of 0 stands for a malformed id.
LabelArgChoices ==
  { LabelArgs(None, None, None, None), LabelArgs(Some(1), None, None, None),
    LabelArgs(Some(0), None, None, None),
    LabelArgs(Some(1), Some("bug"), None, None), LabelArgs(Some(1), None, Some(""), None),
    LabelArgs(None, Some("bug"), None, Some("#ff0000")) }
LabelSubcommands == {"list", "get", "create", "update", "delete"}
RequireLabelId(a) == Require(IsSome(a.id), "Label ID is required")

\* The checks of each case.
LabelChecks(subcommand, a) ==
  CASE subcommand = "list" -> None
    [] subcommand = "create" -> Require(Truthy(a.title), "Title is required")
    [] subcommand = "update" ->
         FirstError(<< RequireLabelId(a), ValidateAndConvertId(a.id, "id"),
            Require(Truthy(a.title) \/ IsSome(a.description) \/ Truthy(a.hexColor),
                    "At least one field to update is required") >>)
    [] OTHER -> FirstError(<< RequireLabelId(a), ValidateAndConvertId(a.id, "id") >>)

\* The operation the envelope of each case names.
LabelOperation(subcommand) ==
  IF subcommand = "list" THEN "list-labels" ELSE subcommand \o "-label"

\* The handler is invoked: the authentication check, then the await on
\* getClientFromContext.
LabelsInvoke(p) ==
  /\ inv[p].pc = "idle"
  /\ calls < MaxCalls
  /\ calls' = calls + 1
  /\ \E authenticated \in BOOLEAN :
       GoesOn(p, IF authenticated THEN [Entered("labels") EXCEPT !.pc = "client"]
                 ELSE ThrowOutside(Entered("labels"), "auth", AuthRequired))
  /\ UNCHANGED <<cachedEvents, cacheExpiry, clock, ticks>>

\* getClientFromContext is settled: the handler enters its try block and runs the
\* case to the call of the client library.
LabelsClientAnswer(p) ==
  /\ inv[p].pc = "client"
  /\ inv[p].tool = "labels"
  /\ \E client \in ClientOutcomes :
     \E subcommand \in (IF client = None THEN LabelSubcommands ELSE {""}) :
     \E a \in (IF subcommand = "" THEN {NoArgs} ELSE LabelArgChoices) :
       LET i == IF subcommand = "" THEN inv[p] ELSE InTryBlock(inv[p], subcommand, a)
           check == LabelChecks(i.subcommand, i.args)
       IN  GoesOn(p,
             IF IsSome(client) THEN ThrowOutside(i, "client", Get(client))
             ELSE IF IsSome(check) THEN ThrowInTry(i, "arguments", Get(check))
             ELSE [i EXCEPT !.pc = "call", !.apiCalls = @ + 1])
  /\ UNCHANGED <<cachedEvents, cacheExpiry, clock, ticks, calls>>

\* The call of the client library is settled (up: None, or the value it throws).
LabelsCallAnswer(p) ==
  /\ inv[p].pc = "call"
  /\ inv[p].tool = "labels"
  /\ \E up \in UpstreamOutcomes :
       GoesOn(p,
                 IF IsSome(up) THEN ThrowInTry(inv[p], "request", Get(up))
                 ELSE ReturnEnvelope(inv[p], LabelOperation(inv[p].subcommand)))
  /\ UNCHANGED <<cachedEvents, cacheExpiry, clock, ticks, calls>>


\* ---- users
\* Each setting is None (not given) or Some(value); frontendSettings holds the
\* number of keys of the mapping given.
UserArgs(name, language, timezone, weekStart, frontendSettings, emailRemindersEnabled, overdueTasksRemindersEnabled, overdueTasksRemindersTime) ==
  [name |-> name, language |-> language, timezone |-> timezone, weekStart |-> weekStart,
   frontendSettings |-> frontendSettings, emailRemindersEnabled |-> emailRemindersEnabled,
   overdueTasksRemindersEnabled |-> overdueTasksRemindersEnabled,
   overdueTasksRemindersTime |-> overdueTasksRemindersTime]
NoUserArgs == UserArgs(None, None, None, None, None, None, None, None)
UserArgChoices ==
  { NoUserArgs,
    [NoUserArgs EXCEPT !.name = Some("")],
    [NoUserArgs EXCEPT !.name = Some("Ann")],
    [NoUserArgs EXCEPT !.weekStart = Some(0)],
    [NoUserArgs EXCEPT !.frontendSettings = Some(0)],
    [NoUserArgs EXCEPT !.emailRemindersEnabled = Some(FALSE)] }
UserSubcommands == {"current", "search", "settings", "update-settings"}

\* A check of update-settings that takes the empty mapping for no setting.
UserChecks_EmptyMappingFalsy(subcommand, a) ==
  IF subcommand # "update-settings" THEN None
  ELSE Require(~(/\ ~Truthy(a.name) /\ ~Truthy(a.language) /\ ~Truthy(a.timezone)
                 /\ a.weekStart = None
                 /\ a.frontendSettings \in {None, Some(0)}
                 /\ a.emailRemindersEnabled = None
                 /\ a.overdueTasksRemindersEnabled = None
                 /\ a.overdueTasksRemindersTime = None),
               "At least one setting field is required")

\* The check of update-settings. A string is truthy unless empty; a mapping is an
\* object, and every object is truthy, the empty one too.
UserChecks(subcommand, a) ==
  IF subcommand # "update-settings" THEN None
  ELSE Require(~(/\ ~Truthy(a.name) /\ ~Truthy(a.language) /\ ~Truthy(a.timezone)
                 /\ a.weekStart = None
                 /\ ~IsSome(a.frontendSettings)
                 /\ a.emailRemindersEnabled = None
                 /\ a.overdueTasksRemindersEnabled = None
                 /\ a.overdueTasksRemindersTime = None),
               "At least one setting field is required")

\* The settings update-settings sends: each argument that is not undefined, under
\* the name of its setting (None: the setting is not in the payload).
SettingsOf(a) ==
  [name |-> a.name, language |-> a.language, timezone |-> a.timezone,
   week_start |-> a.weekStart, frontend_settings |-> a.frontendSettings,
   email_reminders_enabled |-> a.emailRemindersEnabled,
   overdue_tasks_reminders_enabled |-> a.overdueTasksRemindersEnabled,
   overdue_tasks_reminders_time |-> a.overdueTasksRemindersTime]
\* The names update-settings pushes on affectedFields, in the order of the code.
SettingNames ==
  << "name", "language", "timezone", "weekStart", "frontendSettings",
     "emailRemindersEnabled", "overdueTasksRemindersEnabled", "overdueTasksRemindersTime" >>
\* affectedFields: the names of the arguments that are not undefined.
AffectedFields(a) == SelectSeq(SettingNames, LAMBDA f : IsSome(a[f]))

\* The case issues its first call of the client library; update-settings has
\* built its settings and its affectedFields before.
FirstCall(i) ==
  IF i.subcommand = "update-settings"
  THEN [i EXCEPT !.pc = "call", !.apiCalls = @ + 1,
                 !.settings = Some(SettingsOf(i.args)),
                 !.affectedFields = AffectedFields(i.args)]
  ELSE [i EXCEPT !.pc = "call", !.apiCalls = @ + 1]

UserOperation(subcommand) ==
  CASE subcommand = "current" -> "get-current-user"
    [] subcommand = "search" -> "search-users"
    [] subcommand = "settings" -> "get-user-settings"
    [] OTHER -> "update-user-settings"

\* The error of the check on the kind of the session.
JwtRequired ==
  MCPError("PERMISSION_DENIED",
    "User operations require JWT authentication. Please reconnect using vikunja_auth.connect with JWT authentication.")

\* The handler is invoked: the authentication check and the check on the kind of
\* the session, then the await on getClientFromContext.
UsersInvoke(p) ==
  /\ inv[p].pc = "idle"
  /\ calls < MaxCalls
  /\ calls' = calls + 1
  /\ \E authenticated \in BOOLEAN :
     \E authType \in (IF authenticated THEN {"jwt", "api-token"} ELSE {"jwt"}) :
       GoesOn(p, IF ~authenticated THEN ThrowOutside(Entered("users"), "auth", AuthRequired)
                 ELSE IF authType # "jwt"
                      THEN ThrowOutside(Entered("users"), "auth", JwtRequired)
                      ELSE [Entered("users") EXCEPT !.pc = "client"])
  /\ UNCHANGED <<cachedEvents, cacheExpiry, clock, ticks>>

\* getClientFromContext is settled: the handler enters its try block and runs the
\* case to its first call of the client library (updateGeneralSettings for
\* update-settings, getUser or getUsers for the others).
UsersClientAnswer(p) ==
  /\ inv[p].pc = "client"
  /\ inv[p].tool = "users"
  /\ \E client \in ClientOutcomes :
     \E subcommand \in (IF client = None THEN UserSubcommands ELSE {""}) :
     \E a \in (IF subcommand = "" THEN {NoArgs} ELSE UserArgChoices) :
       LET i == IF subcommand = "" THEN inv[p] ELSE InTryBlock(inv[p], subcommand, a)
           check == UserChecks(i.subcommand, i.args)
       IN  GoesOn(p,
             IF IsSome(client) THEN ThrowOutside(i, "client", Get(client))
             ELSE IF IsSome(check) THEN ThrowInTry(i, "arguments", Get(check))
             ELSE FirstCall(i))
  /\ UNCHANGED <<cachedEvents, cacheExpiry, clock, ticks, calls>>

\* The calls of the client library a case makes when none fails.
CallsOf(subcommand) == IF subcommand = "update-settings" THEN 2 ELSE 1

\* A case that makes a call that failed once more before it gives up.
AfterUpdate_Retry(i, up) ==
  IF IsSome(up) THEN ThrowInTry([i EXCEPT !.apiCalls = @ + 1], "request", Get(up))
  ELSE [i EXCEPT !.apiCalls = @ + 1]

\* updateGeneralSettings is settled: a throw goes to the catch block, otherwise
\* the case goes on to getUser.
AfterUpdate(i, up) ==
  IF IsSome(up) THEN ThrowInTry(i, "request", Get(up))
  ELSE [i EXCEPT !.apiCalls = @ + 1]

UsersUpdateAnswer(p) ==
  /\ inv[p].pc = "call"
  /\ inv[p].tool = "users"
  /\ inv[p].apiCalls < CallsOf(inv[p].subcommand)
  /\ \E up \in UpstreamOutcomes :
       GoesOn(p, AfterUpdate(inv[p], up))
  /\ UNCHANGED <<cachedEvents, cacheExpiry, clock, ticks, calls>>

\* The last call of the case (getUser, getUsers) is settled: a throw goes to the
\* catch block; the value handed back, drawn from raws and the arrays of them,
\* is read by the case, and a throw of that goes to the catch block too. raw
\* holds the raw users transformUser was called on, data the users it returned.
UsersRead(p, raws) ==
  /\ inv[p].pc = "call"
  /\ inv[p].tool = "users"
  /\ inv[p].apiCalls = CallsOf(inv[p].subcommand)
  /\ \E up \in UpstreamOutcomes :
     \E value \in (IF up = None THEN ValuesOf(inv[p].subcommand, raws)
                   ELSE {RawUser("undefined", NoFields)}) :
       LET read == UsersOf(inv[p].subcommand, value)
           i == IF IsSome(up) THEN inv[p]
                ELSE [inv[p] EXCEPT !.raw = read.raw, !.data = read.users]
       IN  GoesOn(p,
             IF IsSome(up) THEN ThrowInTry(i, "request", Get(up))
             ELSE IF IsSome(read.err) THEN ThrowInTry(i, "request", Get(read.err))
             ELSE ReturnEnvelope(i, UserOperation(i.subcommand)))
  /\ UNCHANGED <<cachedEvents, cacheExpiry, clock, ticks, calls>>

UsersReadAnswer(p) == UsersRead(p, RawUsers)

\* The same step over the raw users the sanitizer is checked on.
UsersSanitize(p) == UsersRead(p, RawUserValues)


\* ------------------------------------------------------------- test hooks, time
\* The hooks and the clock run between any two steps of the handlers.
clearWebhookEventCache ==
  /\ cachedEvents' = None
  /\ cacheExpiry' = None
  /\ out' = None
  /\ UNCHANGED <<clock, ticks, calls, inv>>

\* A hook that expires the cache and forgets its values.
expireWebhookEventCache_DropValues ==
  /\ cachedEvents' = None
  /\ cacheExpiry' = Some(0)
  /\ out' = None
  /\ UNCHANGED <<clock, ticks, calls, inv>>

expireWebhookEventCache ==
  /\ cacheExpiry' = Some(0)
  /\ out' = None
  /\ UNCHANGED <<cachedEvents, clock, ticks, calls, inv>>

\* The clock advances.
Tick ==
  /\ ticks < MaxTicks
  /\ ticks' = ticks + 1
  /\ \E d \in TickSteps : clock' = clock + d
  /\ out' = None
  /\ UNCHANGED <<cachedEvents, cacheExpiry, calls, inv>>

Next ==
  \/ \E p \in Proc : WebhooksInvoke(p)
  \/ \E p \in Proc : WebhooksClientAnswer(p)
  \/ \E p \in Proc : WebhooksEventsAnswer(p)
  \/ \E p \in Proc : WebhooksEventsBody(p)
  \/ \E p \in Proc : WebhooksValidate(p)
  \/ \E p \in Proc : WebhooksIssueRequest(p)
  \/ \E p \in Proc : WebhooksRequestAnswer(p)
  \/ \E p \in Proc : WebhooksRequestBody(p)
  \/ \E p \in Proc : TeamsInvoke(p)
  \/ \E p \in Proc : TeamsClientAnswer(p)
  \/ \E p \in Proc : TeamsCallAnswer(p)
  \/ \E p \in Proc : TeamsFallbackAnswer(p)
  \/ \E p \in Proc : TeamsFallbackBody(p)
  \/ \E p \in Proc : LabelsInvoke(p)
  \/ \E p \in Proc : LabelsClientAnswer(p)
  \/ \E p \in Proc : LabelsCallAnswer(p)
  \/ \E p \in Proc : UsersInvoke(p)
  \/ \E p \in Proc : UsersClientAnswer(p)
  \/ \E p \in Proc : UsersUpdateAnswer(p)
  \/ \E p \in Proc : UsersReadAnswer(p)
  \/ clearWebhookEventCache
  \/ expireWebhookEventCache
  \/ Tick

Spec == Init /\ [][Next]_vars

\* Next is explored whole with the bounds as written, and by parts with larger
\* bounds. What makes a part enough: the handlers of
\* teams, labels and users read and write nothing but their own invocation; the
\* hooks and the clock write no invocation; and the webhooks handler reads the
\* cache and the clock only inside getValidEvents, before its request is issued.

\* The cache: the webhooks handler in every slot, the hooks and the clock, every
\* interleaving of their steps. The requests on the webhooks get a plain answer.
CacheNext ==
  \/ \E p \in Proc : WebhooksInvoke(p)
  \/ \E p \in Proc : WebhooksClientAnswer(p)
  \/ \E p \in Proc : WebhooksEventsAnswer(p)
  \/ \E p \in Proc : WebhooksEventsBody(p)
  \/ \E p \in Proc : WebhooksValidate(p)
  \/ \E p \in Proc : WebhooksIssueRequest(p)
  \/ \E p \in Proc : WebhooksPlainAnswer(p)
  \/ \E p \in Proc : WebhooksPlainBody(p)
  \/ clearWebhookEventCache
  \/ expireWebhookEventCache
  \/ Tick

CacheSpec == Init /\ [][CacheNext]_vars

\* The handlers: the four tools in every slot with every answer of the upstream,
\* every interleaving of their steps, the hooks and the clock at rest.
HandlersNext ==
  \/ \E p \in Proc : WebhooksInvoke(p)
  \/ \E p \in Proc : WebhooksClientAnswer(p)
  \/ \E p \in Proc : WebhooksEventsAnswer(p)
  \/ \E p \in Proc : WebhooksEventsBody(p)
  \/ \E p \in Proc : WebhooksValidate(p)
  \/ \E p \in Proc : WebhooksIssueRequest(p)
  \/ \E p \in Proc : WebhooksRequestAnswer(p)
  \/ \E p \in Proc : WebhooksRequestBody(p)
  \/ \E p \in Proc : TeamsInvoke(p)
  \/ \E p \in Proc : TeamsClientAnswer(p)
  \/ \E p \in Proc : TeamsCallAnswer(p)
  \/ \E p \in Proc : TeamsFallbackAnswer(p)
  \/ \E p \in Proc : TeamsFallbackBody(p)
  \/ \E p \in Proc : LabelsInvoke(p)
  \/ \E p \in Proc : LabelsClientAnswer(p)
  \/ \E p \in Proc : LabelsCallAnswer(p)
  \/ \E p \in Proc : UsersInvoke(p)
  \/ \E p \in Proc : UsersClientAnswer(p)
  \/ \E p \in Proc : UsersUpdateAnswer(p)
  \/ \E p \in Proc : UsersReadAnswer(p)

HandlersSpec == Init /\ [][HandlersNext]_vars

\* The sanitizer: the users tool in one slot, one invocation at a time, the value
\* the client library hands back drawn from RawUserValues.
Sole == {1}
SanitizerNext ==
  \/ \E p \in Sole : UsersInvoke(p)
  \/ \E p \in Sole : UsersClientAnswer(p)
  \/ \E p \in Sole : UsersUpdateAnswer(p)
  \/ \E p \in Sole : UsersSanitize(p)

SanitizerSpec == Init /\ [][SanitizerNext]_vars

\* The handlers under the assumption that every await is settled (a fetch, a read
\* of a body, a call of the client library resolves or rejects) and that the
\* event loop runs every continuation that is ready.
Fairness ==
  \A p \in Proc :
    /\ WF_vars(WebhooksClientAnswer(p))
    /\ WF_vars(WebhooksEventsAnswer(p))
    /\ WF_vars(WebhooksEventsBody(p))
    /\ WF_vars(WebhooksValidate(p))
    /\ WF_vars(WebhooksIssueRequest(p))
    /\ WF_vars(WebhooksRequestAnswer(p))
    /\ WF_vars(WebhooksRequestBody(p))
    /\ WF_vars(TeamsClientAnswer(p))
    /\ WF_vars(TeamsCallAnswer(p))
    /\ WF_vars(TeamsFallbackAnswer(p))
    /\ WF_vars(TeamsFallbackBody(p))
    /\ WF_vars(LabelsClientAnswer(p))
    /\ WF_vars(LabelsCallAnswer(p))
    /\ WF_vars(UsersClientAnswer(p))
    /\ WF_vars(UsersUpdateAnswer(p))
    /\ WF_vars(UsersReadAnswer(p))
LiveSpec == Init /\ [][HandlersNext]_vars /\ Fairness

\* ============================================================= claims
\* What the step just taken handed over: the invocation whose getValidEvents has
\* returned, with what the read gave, or the invocation whose handler has ended.
Outs == IF IsSome(out) THEN {Get(out)} ELSE {}
HasRead(i) == i.pc = "returned"
Ended(i) == i.pc = "done"
\* The step returns a read, or ends a handler.
Returning == IsSome(out') /\ HasRead(Get(out'))
Ending == IsSome(out') /\ Ended(Get(out'))

\* The lists a read can give: of the static events, or of the events a and b.
EventLists == Seq({DefaultEventsOnError[k] : k \in 1..11} \cup {"a", "b"})

\* A failure of the fetch other than a 401, 403 or 404 answer: getSession or fetch
\* threw, another non-ok status, or a body that does not parse.
OtherFailure(resp) ==
  \/ resp.kind \in {"session", "reject"}
  \/ resp.kind = "http" /\ ~resp.ok /\ resp.status \notin {401, 403, 404}
  \/ resp.kind = "http" /\ resp.ok /\ resp.body = None

\* The step in which the getValidEvents of p returns (out' is then the invocation
\* with what the read gave), and the now it ran with.
ReadReturns(p) == inv[p].pc \in {"client", "events", "body"} /\ inv'[p].pc = "returned"
NowOf(p) == IF Reading(inv[p]) THEN inv[p].now ELSE clock

\* C1: a read of the reference cache never raises: whatever the cache holds and
\* whatever the upstream answers (a failure of getSession included), getValidEvents
\* returns a list to its caller; the only error an invocation raises after its
\* read is the VALIDATION_ERROR of the events of create and update.
C1_ReadNeverRaises ==
  /\ \A i \in Outs :
       /\ HasRead(i) =>
            /\ i.path \in {"cached", "fetched", "notavailable", "stale", "default"}
            /\ i.validEvents \in EventLists
       /\ (Ended(i) /\ i.stage = "events") =>
            /\ i.subcommand \in {"create", "update"}
            /\ i.result.err.code = "VALIDATION_ERROR"
            /\ Get(i.raised) = i.result.err
  /\ \A resp \in EventsAnswers \cup {SessionFailure} :
       LET r == ResumeGetValidEvents(cachedEvents, cacheExpiry, clock, resp)
       IN  ~r.threw /\ r.ret \in EventLists

\* C1 witness: a read on an empty cache whose answer had a body that does not
\* parse has returned the static list to list-events.
C1_Witness ==
  \E i \in Outs :
    /\ HasRead(i) /\ i.subcommand = "list-events"
    /\ i.evResponse = HttpOk(None) /\ i.path = "default"
    /\ Len(i.validEvents) = 11

\* C2: when the fetch of a read fails other than by 401/403/404 while an entry is
\* cached, the read returns the cached values and leaves the values and the expiry
\* as they were: a stale entry stays stale, so the next read fetches again.
C2_StaleFallback ==
  [][\A p \in Proc :
       (ReadReturns(p) /\ OtherFailure(Get(out').evResponse) /\ IsSome(cachedEvents)) =>
         /\ Get(out').validEvents = Get(cachedEvents)
         /\ Get(out').path = "stale"
         /\ cachedEvents' = cachedEvents
         /\ cacheExpiry' = cacheExpiry
         /\ ~(IsSome(cacheExpiry) /\ Get(cacheExpiry) > clock) =>
              ~(IsSome(cacheExpiry') /\ Get(cacheExpiry') > clock')]_vars

\* C2 witness: a network error on a stale entry: the read returned the entry, which
\* is still cached and still expired.
C2_Witness ==
  \E i \in Outs :
    /\ HasRead(i) /\ i.path = "stale"
    /\ i.evResponse = Reject(JsError("fetch failed"))
    /\ cachedEvents = Some(i.validEvents)
    /\ i.validEvents = <<"a", "b">>
    /\ IsSome(cacheExpiry) /\ Get(cacheExpiry) <= clock

\* C3 (as claimed): when the fetch succeeds the entry is the fetched list, the cache
\* is Fresh (the clock is before the expiry) and the read returns the fetched list.
C3_FetchedIsFresh ==
  \A i \in Outs :
    (HasRead(i) /\ i.evResponse.kind = "http" /\ i.evResponse.ok
       /\ IsSome(i.evResponse.body)) =>
      /\ cachedEvents = i.evResponse.body
      /\ i.validEvents = Get(i.evResponse.body)
      /\ IsSome(cacheExpiry) /\ clock < Get(cacheExpiry)

\* C4: when the upstream answers 401, 403 or 404 the entry becomes the static list
\* of 11 events, whatever was cached, its expiry is the now of the read plus the
\* TTL, and the read returns that list.
C4_NotAvailableDefaults ==
  [][\A p \in Proc :
       (ReadReturns(p) /\ Get(out').evResponse.kind = "http" /\ ~Get(out').evResponse.ok
          /\ Get(out').evResponse.status \in {401, 403, 404}) =>
         /\ cachedEvents' = Some(DefaultEventsNotAvailable)
         /\ Len(DefaultEventsNotAvailable) = 11
         /\ cacheExpiry' = Some(NowOf(p) + CACHE_DURATION_MS)
         /\ Get(out').validEvents = DefaultEventsNotAvailable]_vars

\* C4 witness: a 404 answer has put the static list in the cache and in the result.
C4_Witness ==
  \E i \in Outs :
    /\ HasRead(i) /\ i.evResponse.status = 404
    /\ i.validEvents = DefaultEventsNotAvailable
    /\ cachedEvents = Some(DefaultEventsNotAvailable)

\* C5: when the fetch fails other than by 401/403/404 and nothing is cached, the
\* read returns the static list of 11 events, stores it with the expiry now plus
\* the TTL, and the list is the list of the 401/403/404 branch, item by item.
C5_EmptyFallback ==
  [][\A p \in Proc :
       (ReadReturns(p) /\ OtherFailure(Get(out').evResponse) /\ cachedEvents = None) =>
         /\ Get(out').validEvents = DefaultEventsNotAvailable
         /\ Len(Get(out').validEvents) = 11
         /\ cachedEvents' = Some(Get(out').validEvents)
         /\ cacheExpiry' = Some(NowOf(p) + CACHE_DURATION_MS)]_vars

\* C5 witness: a network error on an empty cache has given the 11 events.
C5_Witness ==
  \E i \in Outs :
    /\ HasRead(i) /\ i.path = "default"
    /\ i.evResponse = Reject(JsError("fetch failed"))
    /\ Len(i.validEvents) = 11
    /\ cachedEvents = Some(i.validEvents)

\* The step in which the handler of p gets to getValidEvents.
ReadStarts(p) ==
  /\ inv[p].pc = "client" /\ inv[p].tool = "webhooks"
  /\ inv'[p].pc \in {"events", "returned"}
\* C6: a read returns the cached values without a fetch, and leaves values and
\* expiry alone, exactly when an entry exists and the clock is strictly before its
\* expiry; otherwise (the clock at or past the expiry, or no entry) it issues a
\* fetch.
C6_FreshIffNoFetch ==
  [][\A p \in Proc :
       ReadStarts(p) =>
         LET fresh == /\ cachedEvents # None /\ cacheExpiry # None
                      /\ clock < Get(cacheExpiry)
         IN  /\ fresh <=> inv'[p].pc = "returned"
             /\ fresh => /\ Get(out').path = "cached"
                         /\ inv'[p].evFetches = 0
                         /\ Get(out').validEvents = Get(cachedEvents)
                         /\ cachedEvents' = cachedEvents /\ cacheExpiry' = cacheExpiry
             /\ ~fresh => /\ inv'[p].pc = "events" /\ inv'[p].evFetches = 1
                          /\ inv'[p].now = clock
                          /\ cachedEvents' = cachedEvents
                          /\ cacheExpiry' = cacheExpiry]_vars

\* C6 witness: a read at the very instant of the expiry is fetching.
C6_Witness ==
  \E p \in Proc :
    /\ inv[p].pc = "events" /\ inv[p].now = clock
    /\ cachedEvents # None /\ cacheExpiry = Some(clock) /\ clock > StartTime

\* Both reads write: the upstream answered each with a list or with 401/403/404.
Writes(resp) ==
  resp.kind = "http" /\ (resp.ok => IsSome(resp.body))
                     /\ (~resp.ok => resp.status \in {401, 403, 404})
\* The cache after the read of p then the read of q have resumed with r1 and r2.
AfterBoth(p, q, r1, r2) ==
  LET first == ResumeGetValidEvents(cachedEvents, cacheExpiry, inv[p].now, r1)
  IN  ResumeGetValidEvents(first.events, first.expiry, inv[q].now, r2)
\* C7 (as claimed): two overlapping reads that both fetch leave an entry that does
\* not depend on which of them completes last: same values, same freshness.
C7_OrderIndependent ==
  (Reading(inv[1]) /\ Reading(inv[2])) =>
    \A r1, r2 \in {r \in EventsAnswers : Writes(r)} :
      LET a == AfterBoth(1, 2, r1, r2)
          b == AfterBoth(2, 1, r2, r1)
      IN  /\ a.events = b.events
          /\ (Get(a.expiry) > clock) <=> (Get(b.expiry) > clock)

\* C7 (amended): each of two overlapping reads issues its own fetch, and the last
\* writer wins: a read that completes by writing (a list, or the static list after
\* 401/403/404 or after a failure with nothing cached) leaves exactly its own entry,
\* the list it returns with its own now plus the TTL, whatever the other read
\* wrote; a read that falls back on the cached entry writes nothing.
C7_LastWriterWins ==
  [][\A p \in Proc :
       (ReadReturns(p) /\ Reading(inv[p]) /\ inv[p].overlapped) =>
         /\ inv[p].evFetches = 1
         /\ Get(out').path # "stale" =>
              /\ cachedEvents' = Some(Get(out').validEvents)
              /\ cacheExpiry' = Some(inv[p].now + CACHE_DURATION_MS)
         /\ Get(out').path = "stale" =>
              /\ cachedEvents' = cachedEvents /\ cacheExpiry' = cacheExpiry]_vars

\* C7 witness: the later of two overlapping reads has completed with a fetched
\* list, over the entry the earlier one left: the other invocation holds the list
\* its own read wrote, which is no longer the one cached.
C7_Witness ==
  \E i \in Outs : \E q \in Proc :
    /\ HasRead(i) /\ i.overlapped /\ i.path = "fetched"
    /\ cachedEvents = Some(i.validEvents)
    /\ inv[q].pc \in {"returned", "validated"} /\ inv[q].evFetches = 1
    /\ inv[q].validEvents # i.validEvents

\* The invocation has ended by rejecting.
Failed(i) == Ended(i) /\ i.result.kind = "error"
\* The error was thrown inside the try block of the handler.
InTry(i) == i.stage \in {"arguments", "events", "request"}
\* C8: every failure of an invocation of a tool, at whatever stage (authentication
\* check, getClientFromContext, argument validation, upstream call, sanitization,
\* envelope), reaches the caller as an MCPError: the value a handler rejects with
\* is never a raw Error or another untyped value.
C8_OnlyTaxonomyErrors ==
  \A i \in Outs : Failed(i) => i.result.err.mcp

\* C9: an error that is an MCPError when it is thrown reaches the caller with the
\* code and the message it was thrown with, and the catch block of the handler
\* applied once more to the error the caller received gives that error again.
C9_PassThrough ==
  \A i \in Outs :
    Failed(i) =>
      /\ (IsSome(i.raised) /\ Get(i.raised).mcp) =>
           /\ i.result.err.code = Get(i.raised).code
           /\ i.result.err.message = Get(i.raised).message
           /\ i.result.err = Get(i.raised)
      /\ InTry(i) =>
           /\ i.result.err = Boundary(i, Get(i.raised))
           /\ Boundary(i, i.result.err) = i.result.err

\* C9 witness: the NOT_FOUND of a get on a webhook that the list of the project
\* does not hold has gone through the catch block of the webhooks handler.
C9_Witness ==
  \E i \in Outs :
    /\ Failed(i) /\ i.tool = "webhooks" /\ i.stage = "request"
    /\ Get(i.raised).mcp /\ Get(i.raised).code = "NOT_FOUND"
    /\ i.result.err.code = "NOT_FOUND"

\* The step in which validateWebhookEvents resumes in the invocation of p with
\* the list its read returned.
Validates(p) ==
  /\ inv[p].pc = "returned" /\ inv[p].subcommand \in {"create", "update"}
  /\ inv[p].path # "throw"
  /\ inv'[p].pc = "validated"
\* The step in which the handler of p resumes with the rejection of the validation.
Rejects(p) ==
  /\ inv[p].pc = "validated" /\ IsSome(inv[p].raised)
  /\ inv'[p].pc = "idle"
\* C10: validation against the reference set passes exactly when every candidate is
\* in the set; otherwise it fails with a VALIDATION_ERROR whose message lists the
\* candidates that are not in the set, in their order, then the whole set:
\* reference [a, b] and candidates [a, c] give "c" as invalid and "a, b" as valid.
\* The caller receives that error as validateWebhookEvents threw it.
C10_ValidationPartition ==
  [][/\ \A p \in Proc :
          Validates(p) =>
            LET ref == inv[p].validEvents
                cand == Get(inv[p].args.events)
                member(e) == \E k \in 1..Len(ref) : ref[k] = e
                notMember(e) == ~member(e)
            IN  /\ inv'[p].raised = None <=> \A k \in 1..Len(cand) : member(cand[k])
                /\ IsSome(inv'[p].raised) =>
                     LET err == Get(inv'[p].raised)
                     IN  /\ err.mcp
                         /\ err.code = "VALIDATION_ERROR"
                         /\ err.message =
                              "Invalid webhook events: "
                              \o Join(SelectSeq(cand, notMember), ", ")
                              \o ". Valid events are: " \o Join(ref, ", ")
                         /\ (ref = <<"a", "b">> /\ cand = <<"a", "c">>) =>
                              err.message =
                                "Invalid webhook events: c. Valid events are: a, b"
     /\ \A p \in Proc :
          Rejects(p) =>
            /\ Ending /\ Failed(Get(out'))
            /\ Get(out').result.err = Get(inv[p].raised)]_vars

\* C10 witness: candidates [a, c] have failed against the reference set [a, b].
C10_Witness ==
  \E i \in Outs :
    /\ Ended(i) /\ i.subcommand = "create"
    /\ i.validEvents = <<"a", "b">>
    /\ i.args.events = Some(<<"a", "c">>)
    /\ i.result.err.code = "VALIDATION_ERROR"

\* transformUser has run in the invocation: on each of i.raw, giving the user
\* at the same place in i.data or, on the last, throwing i.raised.
Sanitized(i) == Ended(i) /\ i.tool = "users" /\ i.raw # <<>>

\* C11 (as claimed): on every raw user that is an object and not an array the
\* sanitizer returns a user with id and username, the id an integer, 0 when the
\* source id is absent or not a number; on every other raw value it fails with an
\* MCPError of kind InvalidPayload.
C11_SanitizerTotal ==
  \A i \in Outs :
    Sanitized(i) =>
      \A k \in 1..Len(i.raw) :
        IF IsUserObject(i.raw[k])
        THEN /\ k <= Len(i.data)
             /\ IsInteger(i.data[k].id)
             /\ ToNumber(i.raw[k].fields.id).d = 0 => i.data[k].id = Num(0)
        ELSE /\ Failed(i)
             /\ Get(i.raised).mcp
             /\ Get(i.raised).code = "INVALID_PAYLOAD"

\* C12: in the user the sanitizer returns, week_start and the two reminder flags
\* are there exactly when the source value is not undefined, a false or a 0 kept
\* as it is; each of the six string fields is there exactly when the source value
\* is truthy, and then it is not the empty string.
C12_OptionalFields ==
  \A i \in Outs :
    \A k \in 1..Len(i.raw) :
    (Sanitized(i) /\ IsUserObject(i.raw[k])) =>
      LET src == i.raw[k].fields
          user == i.data[k]
          flag(from, to) ==
            /\ IsSome(to) <=> from.t # "undefined"
            /\ from.t = "boolean" => to = Some(from.b)
      IN  /\ flag(src.email_reminders_enabled, user.email_reminders_enabled)
          /\ flag(src.overdue_tasks_reminders_enabled, user.overdue_tasks_reminders_enabled)
          /\ IsSome(user.week_start) <=> src.week_start.t # "undefined"
          /\ src.week_start.t = "number" => user.week_start = Some(src.week_start)
          /\ \A f \in StringFields :
               /\ IsSome(user.strings[f]) <=> ~IsFalsy(src[f])
               /\ IsSome(user.strings[f]) => Get(user.strings[f]) # ""
               /\ src[f].t = "string" /\ src[f].s # "" => user.strings[f] = Some(src[f].s)

\* C12 witness: {id: 5, username: "a", email_reminders_enabled: false} has been
\* sanitized and the user holds email_reminders_enabled: false.
C12_Witness ==
  \E i \in Outs :
    /\ Sanitized(i)
    /\ i.raw = << RawObject([NoFields EXCEPT !.id = Num(5), !.username = Str("a"),
                                             !.email_reminders_enabled = Bool(FALSE)]) >>
    /\ i.data[1].email_reminders_enabled = Some(FALSE)
    /\ i.data[1].id = Num(5) /\ i.data[1].username = "a"
    /\ \A f \in StringFields : i.data[1].strings[f] = None

\* The fallback of the deletion of a team got a response that is not ok.
FallbackFailed(i) ==
  /\ Ended(i) /\ i.tool = "teams" /\ i.subcommand = "delete"
  /\ i.apiResponse.kind = "http" /\ ~i.apiResponse.ok

\* The text of the body of that response was read: the classifier was called.
TextRead(i) == FallbackFailed(i) /\ i.apiResponse.err = NoError
\* The read of the body of that response rejected.
TextLost(i) == FallbackFailed(i) /\ i.apiResponse.err # NoError
\* The error err is the one the status asks for, with the id of the team.
ByStatus(i, err) ==
  LET status == i.apiResponse.status
  IN  /\ err.mcp
      /\ status \in {401, 403} => err.code \in {"AUTH_REQUIRED", "PERMISSION_DENIED"}
      /\ status = 404 => err.code = "NOT_FOUND"
      /\ status \in {400, 422} => err.code = "VALIDATION_ERROR"
      /\ status \notin {400, 401, 403, 404, 422} => err.code = "API_ERROR"
      /\ err.entityId = i.args.id

C14_NonTaxonomyWrapped ==
  \A i \in Outs :
    (Failed(i) /\ InTry(i) /\ ~Get(i.raised).mcp
       /\ i.tool \in {"webhooks", "teams", "labels"}) =>
      LET thrown == Get(i.raised)
          err == i.result.err
      IN  /\ err.mcp
          /\ thrown.message # "" =>
               /\ err.code = "API_ERROR"
               /\ i.tool = "webhooks" =>
                    err.message = "Webhook operation failed: " \o thrown.message
          /\ thrown.message = "" => err.code = "INTERNAL_ERROR"

\* The invocation failed a precondition or a validation: the authentication check,
\* a check of its arguments, the validation of the events.
Precondition(i) ==
  /\ Failed(i) /\ i.stage \in {"auth", "arguments", "events"}
  /\ Get(i.raised).code \in {"AUTH_REQUIRED", "PERMISSION_DENIED", "VALIDATION_ERROR"}

\* C15 (as claimed): when an invocation fails a precondition or a validation, the
\* unknown webhook event included, no upstream request has been issued and the
\* reference cache is as it was.
C15_NoIOBeforeFailure ==
  [][(Ending /\ Precondition(Get(out'))) =>
       /\ Get(out').apiCalls = 0 /\ Get(out').evFetches = 0
       /\ UNCHANGED <<cachedEvents, cacheExpiry>>]_vars

\* C15 (amended): an invocation that fails the authentication check or a check of
\* its arguments has issued no upstream request and leaves the cache as it was;
\* one that fails the validation of its events has issued no request on the
\* webhooks, but comes after the read of the reference cache: when the entry was
\* fresh nothing was fetched, otherwise the read has issued one fetch of the
\* events; the failing step itself issues nothing and writes nothing.
C15_FailFast ==
  [][(Ending /\ Precondition(Get(out'))) =>
       /\ Get(out').apiCalls = 0
       /\ UNCHANGED <<cachedEvents, cacheExpiry>>
       /\ Get(out').stage \in {"auth", "arguments"} => Get(out').evFetches = 0
       /\ Get(out').stage = "events" =>
            /\ Get(out').tool = "webhooks"
            /\ Get(out').evFetches \in {0, 1}]_vars

\* C15 witness: a create with the events [a, c] has failed the validation after
\* its read fetched the list [a, b] and cached it; no request on the webhooks.
C15_Witness ==
  \E i \in Outs :
    /\ Precondition(i) /\ i.stage = "events"
    /\ i.subcommand = "create" /\ i.args.events = Some(<<"a", "c">>)
    /\ i.evFetches = 1 /\ i.validEvents = <<"a", "b">>
    /\ cachedEvents = Some(<<"a", "b">>)
    /\ i.apiCalls = 0

\* C16: every invocation ends in exactly one of two outcomes: it returns an
\* envelope with success = true and its data payload present, having raised
\* nothing, or it raises a taxonomy error without an envelope; no envelope has
\* success = false and no invocation returns normally without an envelope.
C16_TwoOutcomes ==
  \A i \in Outs :
    Ended(i) =>
      \/ /\ i.result.kind = "envelope"
         /\ i.result.success /\ i.result.data
         /\ ~IsSome(i.raised)
      \/ /\ i.result.kind = "error"
         /\ i.result.err.mcp
         /\ ~i.result.success /\ ~i.result.data

\* A test hook has changed the cache: no invocation moved and the clock stood.
HookStep ==
  /\ UNCHANGED <<inv, clock, calls>>
  /\ <<cachedEvents, cacheExpiry>>' # <<cachedEvents, cacheExpiry>>
\* The states of the cache at time now.
IsEmpty(ce, cx) == ce = None /\ cx = None
IsStale(ce, cx, now) == IsSome(ce) /\ IsSome(cx) /\ Get(cx) <= now
\* The expiry is the one expireWebhookEventCache wrote: a read writes an expiry of
\* its now plus the TTL, which is never 0.
Expired == cacheExpiry = Some(0)
\* The read of p goes for a fetch.
GoesForFetch(p) == inv'[p].pc = "events" /\ inv'[p].evFetches = 1

\* C17 (as claimed): from any state, clearWebhookEventCache leaves the cache Empty
\* and expireWebhookEventCache leaves the values unchanged and the cache Stale; the
\* next read goes for a fetch and, after the expire hook, a read whose fetch fails
\* returns the values that were cached before the hook.
C17_HooksFromAnyState ==
  [][/\ HookStep =>
          \/ IsEmpty(cachedEvents', cacheExpiry')
          \/ /\ cachedEvents' = cachedEvents
             /\ IsStale(cachedEvents', cacheExpiry', clock')
     /\ \A p \in Proc :
          /\ (ReadStarts(p) /\ (IsEmpty(cachedEvents, cacheExpiry) \/ Expired)) =>
               GoesForFetch(p)
          /\ (ReadReturns(p) /\ Expired /\ OtherFailure(Get(out').evResponse)) =>
               /\ cachedEvents = Some(Get(out').validEvents)
               /\ Get(out').path = "stale"]_vars

\* C17 (amended): clearWebhookEventCache leaves the cache Empty; from a cache that
\* holds values expireWebhookEventCache leaves them unchanged and the cache Stale,
\* and from a cache without values it leaves it without values (only the expiry is
\* set, to the epoch). The next read goes for a fetch; when that fetch fails the
\* read returns the values cached before the expire hook and leaves the entry as
\* it is, or, when there were none, the static default list.
C17_TestHooks ==
  [][/\ HookStep =>
          \/ IsEmpty(cachedEvents', cacheExpiry')
          \/ /\ cachedEvents' = cachedEvents /\ cacheExpiry' = Some(0)
             /\ ~IsFresh(cachedEvents', cacheExpiry', clock')
             /\ IsSome(cachedEvents) => IsStale(cachedEvents', cacheExpiry', clock')
     /\ \A p \in Proc :
          /\ (ReadStarts(p) /\ (IsEmpty(cachedEvents, cacheExpiry) \/ Expired)) =>
               GoesForFetch(p)
          /\ (ReadReturns(p) /\ Expired /\ OtherFailure(Get(out').evResponse)) =>
               IF IsSome(cachedEvents)
               THEN /\ Get(out').validEvents = Get(cachedEvents)
                    /\ Get(out').path = "stale"
                    /\ UNCHANGED <<cachedEvents, cacheExpiry>>
               ELSE /\ Get(out').validEvents = DefaultEventsOnError
                    /\ Get(out').path = "default"]_vars

\* C17 witness: the list [a, b] was cached, the hook expired it, the fetch of the
\* next read was rejected, and the read has returned [a, b]; the entry still holds
\* it with the expiry the hook wrote.
C17_Witness ==
  \E i \in Outs :
    /\ HasRead(i) /\ i.path = "stale"
    /\ i.evResponse = Reject(JsError("fetch failed"))
    /\ i.validEvents = <<"a", "b">>
    /\ cachedEvents = Some(<<"a", "b">>)
    /\ Expired

\* The step in which the handler of p ends: out' is then the invocation it ended as.
Completes(p) == inv[p].pc # "idle" /\ inv'[p].pc = "idle"
\* The handler of p is waiting for an answer of the upstream.
Requesting(i) == i.pc \in {"call", "request"}

\* C18: nothing is retried: an invocation has issued at most one fetch of the
\* events and each of its upstream requests at most once; whatever the answer to
\* the fetch of the events, the read goes on with it, and whatever the answer to a
\* request, the handler goes on or ends with it, neither issuing the same again; a
\* step that ends an invocation, by a failure or not, issues nothing.
C18_NoRetry ==
  [][\A p \in Proc :
       /\ inv'[p].evFetches \in {0, 1}
       /\ inv'[p].apiCalls \in 0..CallsOf(inv'[p].subcommand)
       /\ (Reading(inv[p]) /\ inv'[p].pc # "idle") =>
            /\ inv'[p].pc \in {"events", "body", "returned"}
            /\ inv'[p].evFetches = 1 /\ inv'[p].apiCalls = 0
       /\ (Requesting(inv[p]) /\ inv'[p].pc # "idle") =>
            /\ inv'[p].evFetches = inv[p].evFetches
            /\ inv'[p].apiCalls \in {inv[p].apiCalls, inv[p].apiCalls + 1}
            /\ inv'[p].apiCalls = inv[p].apiCalls + 1 =>
                 /\ inv[p].tool = "users" /\ inv[p].subcommand = "update-settings"
                 /\ inv[p].apiCalls = 1
       /\ Completes(p) =>
            /\ Get(out').apiCalls = inv[p].apiCalls
            /\ Get(out').evFetches = inv[p].evFetches
            /\ (Failed(Get(out')) /\ Get(out').stage # "request") =>
                 Get(out').apiCalls = 0]_vars

\* C18 witness: a create whose read fetched the events and whose request was
\* answered 500 has failed after exactly one fetch and one request.
C18_Witness ==
  \E i \in Outs :
    /\ Failed(i) /\ i.tool = "webhooks" /\ i.subcommand = "create"
    /\ i.apiResponse.kind = "http" /\ ~i.apiResponse.ok
    /\ i.apiResponse.status = 500
    /\ i.evFetches = 1 /\ i.apiCalls = 1

\* An update-settings invocation of the users tool with the settings a has got
\* past the authentication checks and the client, and has ended.
UpdatedSettings(i, a) ==
  /\ Ended(i) /\ i.tool = "users" /\ i.subcommand = "update-settings"
  /\ i.args = a /\ i.stage \notin {"auth", "client"}
NoSetting == MCPError("VALIDATION_ERROR", "At least one setting field is required")
OnlyEmptyMapping == [NoUserArgs EXCEPT !.frontendSettings = Some(0)]

\* C19 (as claimed): an update-settings invocation whose only setting is the empty
\* mapping frontendSettings = {} is treated as one with no setting: it fails the
\* check, as the invocation without any setting does, and nothing is sent.
C19_EmptyMappingDropped ==
  \A i \in Outs :
    UpdatedSettings(i, OnlyEmptyMapping) =>
      /\ Failed(i) /\ i.stage = "arguments"
      /\ i.result.err = NoSetting
      /\ i.apiCalls = 0

\* C19 (amended): the empty mapping is an object and passes the truthiness check:
\* an update-settings invocation whose only setting is frontendSettings = {} never
\* fails the check of the settings; it calls updateGeneralSettings with settings
\* that hold frontend_settings = {} and nothing else, and 'frontendSettings' is
\* its one affected field.
C19_EmptyMappingKept ==
  \A i \in Outs :
    UpdatedSettings(i, OnlyEmptyMapping) =>
      /\ i.stage # "arguments"
      /\ Failed(i) => i.result.err # NoSetting
      /\ i.apiCalls >= 1
      /\ IsSome(i.settings)
      /\ Get(i.settings).frontend_settings = Some(0)
      /\ \A f \in DOMAIN Get(i.settings) :
           f # "frontend_settings" => Get(i.settings)[f] = None
      /\ i.affectedFields = << "frontendSettings" >>

\* C19 witness: the invocation whose only setting is the empty mapping has updated
\* the settings, read the user back and returned its envelope.
C19_Witness ==
  \E i \in Outs :
    /\ UpdatedSettings(i, OnlyEmptyMapping)
    /\ i.result.kind = "envelope" /\ i.result.operation = "update-user-settings"
    /\ i.apiCalls = 2
    /\ Get(i.settings).frontend_settings = Some(0)
    /\ Includes(i.affectedFields, "frontendSettings")

\* C20: every entry a read writes (the fetched list, or the static list after
\* 401/403/404 or after a failure on an empty cache) has an expiry of the time its
\* data was fetched, the clock at the answer, plus the TTL: the entry is Fresh when
\* the read returns, however long the fetch took.
C20_ExpiryFromFetchTime ==
  [][\A p \in Proc :
       (ReadReturns(p) /\ Get(out').path \in {"fetched", "notavailable", "default"}) =>
         /\ cachedEvents' = Some(Get(out').validEvents)
         /\ cacheExpiry' = Some(clock + CACHE_DURATION_MS)
         /\ IsFresh(cachedEvents', cacheExpiry', clock')]_vars

\* The invocation has ended with its envelope or with a taxonomy error.
Completed(i) ==
  \/ i.result.kind = "envelope"
  \/ i.result.kind = "error" /\ i.result.err.mcp
\* A read that waits for its fetch goes on only in the step that answers the
\* fetch, and returns with that answer or with its body: nothing else, the passing
\* of time included, ends the wait.
ReturnsOnAnswer ==
  [][\A p \in Proc :
       (inv[p].pc = "events" /\ inv'[p].pc # "events") =>
         /\ clock' = clock
         /\ \/ inv'[p].pc = "body" /\ inv'[p].evResponse \in EventsFetched
            \/ /\ Returning
               /\ Get(out').evResponse \in EventsFetched
               /\ inv'[p].pc = "returned"]_vars

\* C21: a read that needs a fetch returns exactly when the fetch is answered (no
\* timeout ends the wait), and when every issued fetch is answered every read
\* returns and every invocation ends, with its envelope or with a taxonomy error.
C21_EventuallyCompletes ==
  /\ ReturnsOnAnswer
  /\ \A p \in Proc : Reading(inv[p]) ~> ~Reading(inv[p])
  /\ \A p \in Proc : inv[p].pc # "idle" ~> inv[p].pc = "idle"
  /\ [](\A i \in Outs : Ended(i) => Completed(i))

\* Every event of the sequence events is a member of the reference set ref.
AllMembers(events, ref) ==
  \A k \in 1..Len(events) : \E m \in 1..Len(ref) : ref[m] = events[k]
\* The step in which the handler of p issues its PUT (create) or POST (update).
IssuesMutation(p) ==
  /\ inv[p].subcommand \in {"create", "update"} /\ inv[p].tool = "webhooks"
  /\ inv[p].pc # "request" /\ inv'[p].pc = "request"

\* C22: in create and update the validation of the events is over before the
\* mutating request: the request is issued only by a handler whose validation has
\* returned, and every event it carries (the events of the arguments) is a member
\* of the reference set the read returned to that invocation; when the read
\* returns a set that lacks one of the events the validation throws
\* VALIDATION_ERROR and the handler ends with it, no request issued.
C22_ValidatedBeforeMutation ==
  [][\A p \in Proc :
       /\ IssuesMutation(p) =>
            /\ inv[p].pc = "validated" /\ inv[p].raised = None
            /\ inv[p].apiCalls = 0 /\ inv'[p].apiCalls = 1
            /\ inv'[p].args = inv[p].args
            /\ AllMembers(Get(inv[p].args.events), inv[p].validEvents)
       /\ (inv'[p].pc = "validated" /\ inv'[p].raised = None) =>
            /\ inv[p].pc \in {"returned", "validated"}
            /\ inv[p].args = inv'[p].args /\ inv[p].validEvents = inv'[p].validEvents
            /\ AllMembers(Get(inv[p].args.events), inv[p].validEvents)
       /\ (inv[p].pc = "returned" /\ inv[p].subcommand \in {"create", "update"}
             /\ inv[p].path # "throw" /\ inv'[p] # inv[p]
             /\ ~AllMembers(Get(inv[p].args.events), inv[p].validEvents)) =>
            /\ inv'[p].pc = "validated" /\ IsSome(inv'[p].raised)
            /\ Get(inv'[p].raised).mcp
            /\ Get(inv'[p].raised).code = "VALIDATION_ERROR"
            /\ inv'[p].apiCalls = 0
       /\ (inv[p].pc = "validated" /\ IsSome(inv[p].raised) /\ inv'[p] # inv[p]) =>
            /\ Completes(p) /\ Failed(Get(out')) /\ Get(out').stage = "events"
            /\ Get(out').result.err = Get(inv[p].raised)
            /\ Get(out').apiCalls = 0]_vars

\* C22 witness: an update of the events [a], validated against the fetched set
\* [a, b], has issued its POST.
C22_Witness ==
  \E p \in Proc :
    /\ inv[p].pc = "request" /\ inv[p].subcommand = "update"
    /\ inv[p].args.events = Some(<<"a">>)
    /\ inv[p].evFetches = 1 /\ inv[p].apiCalls = 1
    /\ cachedEvents = Some(<<"a", "b">>)

\* The request of a webhooks invocation was answered with a status that is not ok.
AnsweredNotOk(i) ==
  /\ Ended(i) /\ i.tool = "webhooks"
  /\ i.apiResponse.kind = "http" /\ ~i.apiResponse.ok
AdditionalPermissions ==
  "Webhook operations require additional permissions. Please ensure your API token has webhook access rights."

\* C23: when the request of list, get, create, update or delete is answered 401 or
\* 403 the caller gets API_ERROR with the fixed 'additional permissions' message,
\* whatever the body said; on every other status that is not ok, 404 included, it
\* gets API_ERROR with the message of the body when there is one (an empty one
\* counts as none) and otherwise 'Failed to ... <statusText>'; never PERMISSION_DENIED, AUTH_REQUIRED, NOT_FOUND.
C23_WebhookStatusIsApiError ==
  \A i \in Outs :
    AnsweredNotOk(i) =>
      LET resp == i.apiResponse
          err == i.result.err
          verb == i.subcommand
      IN  /\ verb \in {"list", "get", "create", "update", "delete"}
          /\ i.result.kind = "error" /\ err.mcp
          /\ err.code = "API_ERROR"
          /\ err.message =
               IF resp.status \in {401, 403} THEN AdditionalPermissions
               ELSE IF IsSome(resp.message) /\ Get(resp.message) # ""
                    THEN Get(resp.message)
               ELSE "Failed to " \o verb
                    \o (IF verb \in {"list", "get"} THEN " webhooks: " ELSE " webhook: ")
                    \o resp.statusText
          /\ (verb = "delete" /\ resp.status = 404 /\ resp.message = None) =>
               err.message = "Failed to delete webhook: Not Found"

\* C23 witness: a delete answered 403 with a message in its body has failed with
\* API_ERROR and the fixed message.
C23_Witness ==
  \E i \in Outs :
    /\ AnsweredNotOk(i) /\ i.subcommand = "delete"
    /\ i.apiResponse = HttpStatus(403, "Forbidden", Some("upstream says no"))
    /\ i.result.err = MCPError("API_ERROR", AdditionalPermissions)


====
